---- MODULE Spec2Model ----
(***************************************************************************)
(* State-machine model of the qudi spectroscopy modules.                   *)
(*                                                                         *)
(*   Spec           SpectrumLogic (logic/spectrum_logic.py): activation,   *)
(*                  the acquisition handlers, the two QTimers, the camera  *)
(*                  and spectrometer it drives, and every property setter. *)
(*   SpecInterfuse  SpectrometerScannerInterfuse.scan_line                 *)
(*                  (logic/interfuse/confocal_scanner_spectrometer_        *)
(*                  interfuse.py), one step per statement.                 *)
(*   SpecTimeHarp   TimeHarp260 (hardware/timeharp/timeharp260.py).        *)
(*   SpecShamrock   Shamrock (hardware/spectrometer/shamrock.py).          *)
(*   SpecCosmic     SpectrumLogic.reject_cosmic on a stack of scans.       *)
(*   SpecWavelength SpectrumLogic.wavelength_spectrum.                     *)
(*   SpecStatusVars the two StatusVars declared under one name and the     *)
(*                  host's store.                                          *)
(*   SpecStepper    ConfocalStepperLogic (logic/confocal_stepper_logic.py).*)
(*   SpecPolarimeter  the dual-polarization interfuse: scan_line and       *)
(*                  get_last_spectrum.                                     *)
(*   SpecShamrockLogic  the centre-wavelength setters of shamrock_logic.py *)
(*                  and spectrum_shamrock.py.                              *)
(*   SpecNPZ        NPZactuator (hardware/motor/Newport_NPZ_motor.py).     *)
(*                                                                         *)
(* Floats are modelled by small integers; Python None by NoneVal for       *)
(* numbers and by "None" for strings.  An Enum member is the string        *)
(* "Class.NAME", its .name is "NAME": the two never compare equal, as in   *)
(* Python.  A handler that raises keeps the assignments it made before the *)
(* raise; `last.raised` records that it raised.                            *)
(***************************************************************************)
EXTENDS Integers, Sequences, FiniteSets, TLC

\* ------------------------------------------------------------------ bounds
MaxGratings == 2        \* largest configured number of gratings G
MaxValue == 2           \* numeric setter inputs are drawn from 0..MaxValue
MaxFrame == 2           \* the camera delivers a frame of Frames == 1..MaxFrame
MaxInflight == 2        \* cap on camera starts issued while the camera is busy
MaxSetterCalls == 1     \* property-setter calls explored per behaviour
MaxLine == 2            \* longest line_path handed to scan_line
MaxScans == 3           \* largest persisted number_of_scan (the MULTI_SCAN scenario)

\* --------------------------------------------------------- program constants
NoneVal == -1           \* Python None in a numeric slot
DefaultAccumulationDelay == 1    \* StatusVar default 1e-2 s, in units of 10 ms
DefaultScanDelay == 100          \* StatusVar default 1 s, in units of 10 ms
DefaultNumberOfScan == 1
DefaultNumberAccumulatedScan == 1

Frames == 1..MaxFrame
NoFrame == <<>>         \* np.empty((2, 0)): no sample

AcquisitionModes ==
    {"SINGLE_SCAN", "MULTI_SCAN", "LIVE_SCAN", "ACC_SINGLE_SCAN", "ACC_MULTI_SCAN"}

VARIABLES
    module_state,    \* SpectrumLogic.module_state(): "deactivated" | "idle" | "locked"
    acquired_data,   \* SpectrumLogic._acquired_data, a sequence of frames
    status_timer,    \* _status_timer.isActive()  (repeating QTimer)
    loop_timer,      \* _loop_timer.isActive()    (single-shot QTimer)
    cache,           \* the cached attributes of SpectrumLogic
    cons,            \* spectro_constraints / camera_constraints
    hw,              \* registers of the spectrometer and of the camera
    cam_ready,       \* camera.get_ready_state()
    cam_frame,       \* what camera.get_acquired_data() returns
    cam_inflight,    \* camera.start_acquisition() calls since the camera was last ready
    calls,           \* hardware calls and timer starts of the last handler, in order
    last,            \* the last handler: [op, arg, from, raised]
    setter_calls,    \* number of property-setter calls made so far
    loop_called,     \* loop_acquisition() has been called directly (not by its timer)
    if_state,        \* interfuse module_state(): "idle" | "locked"
    if_pc,           \* position of the scan_line call in progress
    if_line,         \* line_path of the call in progress: one entry per point
    if_i,            \* loop index i of scan_line
    if_count,        \* count_data of the call in progress
    if_line_length,  \* the attribute _line_length of the interfuse (NoneVal: not set)
    if_moves,        \* scanner_set_position calls of the call in progress
    if_result,       \* how the last scan_line call left: [kind, value]
    th,              \* TimeHarp260: the driver's attributes and the device registers
    th_calls,        \* vendor library calls of the last TimeHarp260 method, in order
    th_last,         \* the last TimeHarp260 method: [op, arg, ret, raised]
    th_count,        \* number of TimeHarp260 method calls made so far
    sh,              \* Shamrock: the driver's attributes and the spectrograph
    sh_calls,        \* vendor library calls of the last Shamrock method, in order
    sh_last,         \* the last Shamrock method: [op, arg, ret, raised]
    sh_count,        \* number of Shamrock method calls made so far
    optics,          \* camera_constraints and spectro_constraints read by wavelength_spectrum
    stack,           \* the stack of accumulated scans the caller holds for reject_cosmic
    sl_last,         \* the last reject_cosmic / wavelength_spectrum call: [op, arg, ret, log, statistic]
    sv,              \* the two StatusVars declared under 'wavelength_calibration' and the host's store
    stepper,         \* ConfocalStepperLogic: state, attributes, the last call and its moves
    pol,             \* the dual-polarization interfuse: _count_data, _pointer, the calls in progress
    shl,             \* ShamrockLogic / the spectrum_shamrock logic and the driver they push to
    npz              \* NPZactuator: configuration, serial link, the last call

logic_vars == <<module_state, acquired_data, status_timer, loop_timer, cache, cons, hw,
                cam_ready, cam_frame, cam_inflight, calls, last, setter_calls, loop_called>>
th_vars == <<th, th_calls, th_last, th_count>>
sh_vars == <<sh, sh_calls, sh_last, sh_count>>
other_vars == <<optics, stack, sl_last, sv, stepper, pol, shl, npz>>
driver_vars == <<th_vars, sh_vars, other_vars>>
interfuse_vars == <<if_state, if_pc, if_line, if_i, if_count, if_line_length, if_moves, if_result>>
vars == <<logic_vars, interfuse_vars, driver_vars>>

\* ------------------------------------------------ simulated hardware (stubs)
\* The camera and the spectrometer are collaborators reached through
\* self.camera() and self.spectrometer(); the simulated hardware keeps one
\* register per quantity and snaps a written number to its resolution.
InputPorts == <<"PortType.INPUT_FRONT", "PortType.INPUT_SIDE">>
OutputPorts == <<"PortType.OUTPUT_FRONT", "PortType.OUTPUT_SIDE">>
ReadModeEnums == {"ReadMode.FVB", "ReadMode.IMAGE"}
ShutterEnums == {"ShutterState.OPEN", "ShutterState.CLOSED"}
TriggerModes == {"INTERNAL", "EXTERNAL"}
ReadoutSpeeds == {1, 2}
InternalGains == {1, 2}
Width == 3
Height == 3
HasShutter == TRUE
HasCooler == TRUE

Range(seq) == {seq[k] : k \in 1..Len(seq)}
IndexOf(seq, x) == CHOOSE k \in 1..Len(seq) : seq[k] = x

\* PortType[...], ReadMode[...], ShutterState[...]: a member name to the member
PortTypeOf(name) == "PortType." \o name
ReadModeOf(name) == "ReadMode." \o name
ShutterStateOf(name) == "ShutterState." \o name
PortNames == {"INPUT_FRONT", "INPUT_SIDE", "OUTPUT_FRONT", "OUTPUT_SIDE"}
ReadModeNames == {"FVB", "IMAGE"}
ShutterNames == {"OPEN", "CLOSED"}
\* Enum.name: the member to its name
EnumName(member) ==
    CASE member = "ReadMode.FVB" -> "FVB"
      [] member = "ReadMode.IMAGE" -> "IMAGE"
      [] member = "ShutterState.OPEN" -> "OPEN"
      [] member = "ShutterState.CLOSED" -> "CLOSED"
      [] member = "TriggerMode.INTERNAL" -> "INTERNAL"
      [] member = "TriggerMode.EXTERNAL" -> "EXTERNAL"
      [] OTHER -> member

\* the hardware rounds a written number up to its resolution of 2 units
Snap(v) == 2 * ((v + 1) \div 2)
\* a register that only takes the listed values ignores any other write
Listed(allowed, old, v) == IF v \in allowed THEN v ELSE old

\* wavelength_max of each grating (spectro_constraints.gratings[i].wavelength_max)
WavelengthMax(g) == MaxValue + 1 - g

\* ------------------------------------------------------------------- Init
\* State after construction: the StatusVars hold their defaults (a first
\* run) or the values persisted by an earlier session, nothing else is cached
\* yet, both devices are powered and idle.
SavedValue == 1         \* the number an earlier session persisted

CacheAfterConstruction(saved, mode, nscan) ==
    [grating_index |-> NoneVal, center_wavelength |-> NoneVal,
     wavelength_calibration |-> 0,
     input_port |-> "None", output_port |-> "None",
     input_slit_width |-> <<NoneVal, NoneVal>>,
     output_slit_width |-> <<NoneVal, NoneVal>>,
     read_mode |-> "None", readout_speed |-> saved,
     active_tracks |-> <<>>,
     image_advanced |-> [hbin |-> NoneVal, vbin |-> NoneVal, hstart |-> NoneVal,
                         hend |-> NoneVal, vstart |-> NoneVal, vend |-> NoneVal],
     acquisition_mode |-> mode, camera_gain |-> saved, exposure_time |-> saved,
     accumulation_delay |-> DefaultAccumulationDelay, scan_delay |-> DefaultScanDelay,
     number_of_scan |-> nscan,
     number_accumulated_scan |-> DefaultNumberAccumulatedScan,
     trigger_mode |-> "None", shutter_state |-> "None",
     temperature_setpoint |-> saved]

HardwareAtPowerUp ==
    [grating_index |-> 0, wavelength |-> 2,
     input_port |-> "PortType.INPUT_FRONT", output_port |-> "PortType.OUTPUT_FRONT",
     slit_width |-> [p \in Range(InputPorts) \cup Range(OutputPorts) |-> 2],
     read_mode |-> "ReadMode.FVB", readout_speed |-> 1,
     active_tracks |-> <<0, 1>>,
     image_advanced |-> [hbin |-> 1, vbin |-> 1, hstart |-> 0, hend |-> Width - 1,
                         vstart |-> 0, vend |-> Height - 1],
     gain |-> 1, exposure_time |-> 2, trigger_mode |-> "INTERNAL",
     shutter |-> "ShutterState.CLOSED", temperature_setpoint |-> 2,
     cooler_on |-> FALSE]

NoOp == [op |-> "none", arg |-> NoneVal, from |-> "deactivated", raised |-> FALSE]

InitInterfuse(line_lengths) ==
    /\ if_state = "idle"
    /\ if_pc = "out"
    /\ if_line = <<>>
    /\ if_i = 0
    /\ if_count = <<>>
    /\ if_line_length \in line_lengths
    /\ if_moves = 0
    /\ if_result = [kind |-> "none", value |-> <<>>, locked |-> FALSE]

\* the StatusVars of a first run, and of a session restored in `mode`
FirstRun == CacheAfterConstruction(NoneVal, "SINGLE_SCAN", DefaultNumberOfScan)
Restored(mode) == CacheAfterConstruction(SavedValue, mode, MaxScans)

InitLogic(caches, gratings) ==
    /\ module_state = "deactivated"
    /\ acquired_data = NoFrame
    /\ status_timer = FALSE
    /\ loop_timer = FALSE
    /\ cache \in caches
    /\ \E g \in gratings : cons = [number_of_gratings |-> g]
    /\ hw = HardwareAtPowerUp
    /\ cam_ready = TRUE
    /\ cam_frame = NoFrame
    /\ cam_inflight = 0
    /\ calls = <<>>
    /\ last = NoOp
    /\ setter_calls = 0
    /\ loop_called = FALSE

\* ------------------------------------------------------------- activation
Did(op, arg, raised) == [op |-> op, arg |-> arg, from |-> module_state, raised |-> raised]

\* on_activate, run by the host's activate transition (deactivated -> idle)
ActivatedCache ==
    [cache EXCEPT
        !.grating_index = hw.grating_index,
        !.center_wavelength = hw.wavelength,
        !.input_port = IF Len(InputPorts) < 2 THEN InputPorts[1] ELSE hw.input_port,
        !.output_port = IF Len(OutputPorts) < 2 THEN OutputPorts[1] ELSE hw.output_port,
        !.input_slit_width = [k \in 1..Len(InputPorts) |-> hw.slit_width[InputPorts[k]]],
        !.output_slit_width = [k \in 1..Len(OutputPorts) |-> hw.slit_width[OutputPorts[k]]],
        !.read_mode = hw.read_mode,
        !.readout_speed = IF @ = NoneVal THEN hw.readout_speed ELSE @,
        !.active_tracks = hw.active_tracks,
        !.image_advanced = hw.image_advanced,
        !.camera_gain = IF @ = NoneVal THEN hw.gain ELSE @,
        !.exposure_time = IF @ = NoneVal THEN hw.exposure_time ELSE @,
        !.trigger_mode = hw.trigger_mode,
        !.shutter_state = IF HasShutter THEN hw.shutter ELSE @,
        !.temperature_setpoint = IF @ = NoneVal THEN hw.temperature_setpoint ELSE @]

ActivatedHardware ==
    [hw EXCEPT
        !.readout_speed = IF cache.readout_speed = NoneVal THEN @
                          ELSE Listed(ReadoutSpeeds, @, cache.readout_speed),
        !.gain = IF cache.camera_gain = NoneVal THEN @
                 ELSE Listed(InternalGains, @, cache.camera_gain),
        !.exposure_time = IF cache.exposure_time = NoneVal THEN @
                          ELSE Snap(cache.exposure_time),
        !.temperature_setpoint =
            IF ~HasCooler THEN @
            ELSE IF cache.temperature_setpoint = NoneVal THEN Snap(@)
            ELSE Snap(cache.temperature_setpoint)]

on_activate ==
    /\ module_state = "deactivated"
    /\ module_state' = "idle"
    /\ cache' = ActivatedCache
    /\ hw' = ActivatedHardware
    /\ status_timer' = FALSE
    /\ loop_timer' = FALSE
    /\ calls' = <<"get_constraints", "on_activate reads and writes">>
    /\ last' = Did("on_activate", NoneVal, FALSE)
    /\ UNCHANGED <<acquired_data, cons, cam_ready, cam_frame, cam_inflight,
                   setter_calls, loop_called, interfuse_vars, driver_vars>>

\* ------------------------------------------------------------ acquisition
\* camera().start_acquisition(): the exposure starts; one more is in flight
\* when the camera was still busy
CameraStarted == IF cam_ready THEN 1 ELSE cam_inflight + 1

\* the exposure ends: the camera is ready and holds a new frame
camera_finishes ==
    /\ ~cam_ready
    /\ cam_ready' = TRUE
    /\ cam_inflight' = 0
    /\ \E f \in Frames : cam_frame' = <<f>>
    /\ calls' = <<>>
    /\ last' = Did("camera_finishes", NoneVal, FALSE)
    /\ UNCHANGED <<module_state, acquired_data, status_timer, loop_timer, cache, cons, hw,
                   setter_calls, loop_called, interfuse_vars, driver_vars>>

\* the guard of start_acquisition
StartRefused_never == FALSE
StartRefused == module_state = "locked"

start_acquisition ==
    /\ module_state # "deactivated"
    /\ last' = Did("start_acquisition", NoneVal, FALSE)
    /\ IF StartRefused
       THEN /\ calls' = <<>>
            /\ UNCHANGED <<module_state, cam_ready, cam_inflight, status_timer>>
       ELSE /\ module_state' = "locked"
            /\ cam_ready' = FALSE
            /\ cam_inflight' = CameraStarted
            /\ status_timer' = TRUE
            /\ calls' = <<"camera.start_acquisition", "_status_timer.start">>
    /\ UNCHANGED <<acquired_data, loop_timer, cache, cons, hw, cam_frame,
                   setter_calls, loop_called, interfuse_vars, driver_vars>>

\* module_state.unlock() is a transition of the host's state machine from
\* 'locked'; called in 'idle' it either raises or does nothing, by the host
UnlockOutcomes == IF module_state = "locked" THEN {"unlocked"} ELSE {"raises", "ignored"}

\* what _check_status does once the camera reports ready
StatusUnlocks_always == TRUE
StatusUnlocks == cam_ready

\* _check_status, the slot of the repeating _status_timer
check_status ==
    /\ status_timer
    /\ module_state # "deactivated"
    /\ IF StatusUnlocks
       THEN \E outcome \in UnlockOutcomes :
              /\ last' = Did("_check_status", NoneVal, outcome = "raises")
              /\ module_state' = IF outcome = "unlocked" THEN "idle" ELSE module_state
              /\ acquired_data' = IF outcome = "raises" THEN acquired_data ELSE cam_frame
              /\ calls' = IF outcome = "raises" THEN <<"camera.get_ready_state">>
                          ELSE <<"camera.get_ready_state", "camera.get_acquired_data">>
       ELSE /\ last' = Did("_check_status", NoneVal, FALSE)
            /\ calls' = <<"camera.get_ready_state">>
            /\ UNCHANGED <<module_state, acquired_data>>
    /\ UNCHANGED <<status_timer, loop_timer, cache, cons, hw, cam_ready, cam_frame,
                   cam_inflight, setter_calls, loop_called, interfuse_vars, driver_vars>>

\* the name of an acquisition mode, one character at a time
Characters(acquisition_mode) ==
    CASE acquisition_mode = "SINGLE_SCAN" ->
           <<"S", "I", "N", "G", "L", "E", "_", "S", "C", "A", "N">>
      [] acquisition_mode = "MULTI_SCAN" ->
           <<"M", "U", "L", "T", "I", "_", "S", "C", "A", "N">>
      [] acquisition_mode = "LIVE_SCAN" ->
           <<"L", "I", "V", "E", "_", "S", "C", "A", "N">>
      [] acquisition_mode = "ACC_SINGLE_SCAN" ->
           <<"A", "C", "C", "_", "S", "I", "N", "G", "L", "E", "_", "S", "C", "A", "N">>
      [] acquisition_mode = "ACC_MULTI_SCAN" ->
           <<"A", "C", "C", "_", "M", "U", "L", "T", "I", "_", "S", "C", "A", "N">>
      [] OTHER -> <<>>
\* the slices s[:n] and s[-n:] of Python
FirstChars(s, n) == SubSeq(s, 1, IF n < Len(s) THEN n ELSE Len(s))
LastChars(s, n) == SubSeq(s, IF n < Len(s) THEN Len(s) - n + 1 ELSE 1, Len(s))

\* the property number_of_loop: `if self._acquisition_mode[-10:] == 'MULTI_SCAN'`,
\* `elif self._acquisition_mode[:3] == 'ACC'`
number_of_loop ==
    LET name == Characters(cache.acquisition_mode) IN
    IF LastChars(name, 10) = Characters("MULTI_SCAN") THEN 1 * cache.number_of_scan
    ELSE IF FirstChars(name, 3) = <<"A", "C", "C">> THEN 1 * cache.number_accumulated_scan
    ELSE 1

\* number_of_loop is a property without a setter: `self.number_of_loop -= 1`
\* raises AttributeError and ends loop_acquisition there
NumberOfLoopHasSetter == FALSE

\* loop_acquisition, the slot of the single-shot _loop_timer (by_timer) and a
\* public method (~by_timer)
loop_acquisition(by_timer) ==
    /\ module_state # "deactivated"
    /\ IF by_timer THEN loop_timer ELSE TRUE
    /\ cam_ready \/ cam_inflight < MaxInflight
    /\ ~NumberOfLoopHasSetter
    /\ loop_called' = (loop_called \/ ~by_timer)
    /\ IF cam_ready
       THEN /\ loop_timer' = TRUE
            /\ calls' = <<"camera.get_ready_state", "_loop_timer.start">>
            /\ last' = Did("loop_acquisition", NoneVal, FALSE)
            /\ UNCHANGED <<cam_ready, cam_inflight>>
       ELSE /\ loop_timer' = IF by_timer THEN FALSE ELSE loop_timer
            /\ cam_ready' = FALSE
            /\ cam_inflight' = CameraStarted
            /\ calls' = <<"camera.get_ready_state", "camera.start_acquisition">>
            /\ last' = Did("loop_acquisition", NoneVal, TRUE)
    /\ UNCHANGED <<module_state, acquired_data, status_timer, cache, cons, hw, cam_frame,
                   setter_calls, interfuse_vars, driver_vars>>

\* on_activate creates _loop_timer and _status_timer only: the attribute
\* self._timer read by stop_acquisition does not exist
TimerAttributeExists == FALSE

stop_acquisition ==
    /\ module_state # "deactivated"
    /\ IF ~TimerAttributeExists
       THEN /\ last' = Did("stop_acquisition", NoneVal, TRUE)
            /\ calls' = <<>>
            /\ UNCHANGED <<module_state, cam_ready, cam_inflight, status_timer, loop_timer>>
       ELSE \E outcome \in UnlockOutcomes :
            /\ last' = Did("stop_acquisition", NoneVal, outcome = "raises")
            /\ calls' = <<"camera.stop_acquisition">>
            /\ cam_ready' = TRUE
            /\ cam_inflight' = 0
            /\ module_state' = "idle"
            /\ status_timer' = FALSE
            /\ loop_timer' = FALSE
    /\ UNCHANGED <<acquired_data, cache, cons, hw, cam_frame,
                   setter_calls, loop_called, interfuse_vars, driver_vars>>

\* ---------------------------------------------------------------- setters
Numbers == 0..MaxValue

\* one call of a property setter: what it leaves in the cache and in the
\* hardware, the hardware calls it made, and whether it raised
SetterStep(name, arg, raised, new_cache, new_hw, new_calls) ==
    /\ module_state \in {"idle", "locked"}
    /\ setter_calls < MaxSetterCalls
    /\ setter_calls' = setter_calls + 1
    /\ last' = Did(name, arg, raised)
    /\ cache' = new_cache
    /\ hw' = new_hw
    /\ calls' = new_calls
    /\ UNCHANGED <<module_state, acquired_data, status_timer, loop_timer, cons, cam_ready,
                   cam_frame, cam_inflight, loop_called, interfuse_vars, driver_vars>>

\* an early return: error logged or value unchanged, nothing written
Returns(name, arg) == SetterStep(name, arg, FALSE, cache, hw, <<>>)

\* `if self.module_state() == 'locked': ... return`, the first statement of a setter
RejectedWhileLocked == module_state = "locked"

\* `if not 0 <= grating_index < number_of_gratings`
GratingOutOfRange_inclusive(v) == ~(0 <= v /\ v <= cons.number_of_gratings)
GratingOutOfRange(v) == ~(0 <= v /\ v < cons.number_of_gratings)

set_grating_index(v) ==
    IF RejectedWhileLocked \/ v = cache.grating_index \/ GratingOutOfRange(v)
    THEN Returns("grating_index", v)
    ELSE LET h == [hw EXCEPT !.grating_index = v]
         IN SetterStep("grating_index", v, FALSE,
                       [cache EXCEPT !.grating_index = h.grating_index], h,
                       <<"spectrometer.set_grating_index", "spectrometer.get_grating_index">>)

\* the body of the center_wavelength setter below its lock check
WavelengthOutOfRange(w) == ~(0 < w /\ w < WavelengthMax(cache.grating_index))
WavelengthWritten(w) == [hw EXCEPT !.wavelength = Snap(w)]
WavelengthCalls(w) ==
    IF WavelengthOutOfRange(w) THEN <<>>
    ELSE <<"spectrometer.set_wavelength", "spectrometer.get_wavelength">>

set_center_wavelength(w) ==
    IF RejectedWhileLocked \/ WavelengthOutOfRange(w)
    THEN Returns("center_wavelength", w)
    ELSE LET h == WavelengthWritten(w)
         IN SetterStep("center_wavelength", w, FALSE,
                       [cache EXCEPT !.center_wavelength = h.wavelength], h,
                       WavelengthCalls(w))

\* the setter assigns self.center_wavelength (the setter above, on an idle
\* module) and then stores the calibration
set_wavelength_calibration(c) ==
    IF RejectedWhileLocked
    THEN Returns("wavelength_calibration", c)
    ELSE LET w == cache.center_wavelength - c
             h == IF WavelengthOutOfRange(w) THEN hw ELSE WavelengthWritten(w)
         IN SetterStep("wavelength_calibration", c, FALSE,
                       [cache EXCEPT !.center_wavelength = h.wavelength,
                                     !.wavelength_calibration = c], h,
                       WavelengthCalls(w))

\* `if isinstance(port, str) and port in PortType.__members__: port = PortType[port]`
AsPortType(p) == IF p \in PortNames THEN PortTypeOf(p) ELSE p
PortInputs(ports) ==
    {EnumName(ports[1]), "INPUT_SIDE", "OUTPUT_SIDE", ports[1], ports[2], "LEFT"}

set_input_port(p) ==
    IF \/ RejectedWhileLocked
       \/ Len(InputPorts) < 2
       \/ AsPortType(p) \notin Range(InputPorts)
       \/ AsPortType(p) = cache.input_port
    THEN Returns("input_port", p)
    ELSE LET h == [hw EXCEPT !.input_port = AsPortType(p)]
         IN SetterStep("input_port", p, FALSE,
                       [cache EXCEPT !.input_port = h.input_port], h,
                       <<"spectrometer.set_input_port", "spectrometer.get_input_port">>)

set_output_port(p) ==
    IF \/ RejectedWhileLocked
       \/ Len(OutputPorts) < 2
       \/ AsPortType(p) \notin Range(OutputPorts)
       \/ AsPortType(p) = cache.output_port
    THEN Returns("output_port", p)
    ELSE LET h == [hw EXCEPT !.output_port = AsPortType(p)]
         IN SetterStep("output_port", p, FALSE,
                       [cache EXCEPT !.output_port = h.output_port], h,
                       <<"spectrometer.set_output_port", "spectrometer.get_output_port">>)

\* the port argument of set_input_slit_width / set_output_slit_width:
\* 'current', 'front', 'side'; anything else is refused ("None" here)
SlitPortArgs == {"current", "front", "side", "back"}
SlitPort(arg, current, ports) ==
    CASE arg = "current" -> current
      [] arg = "front" -> ports[1]
      [] arg = "side" -> ports[2]
      [] OTHER -> "None"

set_input_slit_width(v, arg) ==
    LET port == SlitPort(arg, cache.input_port, InputPorts) IN
    IF RejectedWhileLocked \/ port \notin Range(InputPorts)
    THEN Returns("input_slit_width", v)
    ELSE LET index == IndexOf(InputPorts, port) IN
         IF cache.input_slit_width[index] = v
         THEN Returns("input_slit_width", v)
         ELSE LET h == [hw EXCEPT !.slit_width[port] = Snap(v)]
              IN SetterStep("input_slit_width", v, FALSE,
                            [cache EXCEPT !.input_slit_width[index] = h.slit_width[port]], h,
                            <<"spectrometer.set_slit_width", "spectrometer.get_slit_width">>)

set_output_slit_width(v, arg) ==
    LET port == SlitPort(arg, cache.output_port, OutputPorts) IN
    IF RejectedWhileLocked \/ port \notin Range(OutputPorts)
    THEN Returns("output_slit_width", v)
    ELSE LET index == IndexOf(OutputPorts, port) IN
         IF cache.output_slit_width[index] = v
         THEN Returns("output_slit_width", v)
         ELSE LET h == [hw EXCEPT !.slit_width[port] = Snap(v)]
              IN SetterStep("output_slit_width", v, FALSE,
                            [cache EXCEPT !.output_slit_width[index] = h.slit_width[port]], h,
                            <<"spectrometer.set_slit_width", "spectrometer.get_slit_width">>)

AsReadMode(m) == IF m \in ReadModeNames THEN ReadModeOf(m) ELSE m
ReadModeInputs == ReadModeNames \cup ReadModeEnums \cup {"KINETIC"}

set_read_mode(m) ==
    IF \/ RejectedWhileLocked
       \/ m = cache.read_mode
       \/ AsReadMode(m) \notin ReadModeEnums
    THEN Returns("read_mode", m)
    ELSE LET h == [hw EXCEPT !.read_mode = AsReadMode(m)]
         IN SetterStep("read_mode", m, FALSE,
                       [cache EXCEPT !.read_mode = EnumName(h.read_mode)], h,
                       <<"camera.set_read_mode", "camera.get_read_mode">>)

set_readout_speed(v) ==
    IF \/ RejectedWhileLocked
       \/ v \notin ReadoutSpeeds
       \/ v = cache.readout_speed
    THEN Returns("readout_speed", v)
    ELSE LET h == [hw EXCEPT !.readout_speed = Listed(ReadoutSpeeds, @, v)]
         IN SetterStep("readout_speed", v, FALSE,
                       [cache EXCEPT !.readout_speed = h.readout_speed], h,
                       <<"camera.set_readout_speed", "camera.get_readout_speed">>)

\* `if active_tracks == self._active_tracks` takes the truth value of a numpy
\* comparison of an array with the cached list: of two or more elements it
\* raises ValueError; of shapes that do not broadcast it is False or raises,
\* by the numpy version
TrackInputs == {<<>>, <<0>>, <<0, 1>>, <<0, Height>>}
TracksInRange(t) == \A k \in 1..Len(t) : 0 <= t[k] /\ t[k] < Height
EvenTracks(t) == IF Len(t) % 2 # 0 THEN Append(t, Height - 1) ELSE t
ArrayTruthOutcomes == {"raises", "false"}

set_active_tracks(t) ==
    IF RejectedWhileLocked \/ ~TracksInRange(t)
    THEN Returns("active_tracks", t)
    ELSE \E outcome \in ArrayTruthOutcomes :
           IF outcome = "raises"
           THEN SetterStep("active_tracks", t, TRUE, cache, hw, <<>>)
           ELSE LET h == [hw EXCEPT !.active_tracks = EvenTracks(t)]
                IN SetterStep("active_tracks", t, FALSE,
                              [cache EXCEPT !.active_tracks = h.active_tracks], h,
                              <<"camera.set_active_tracks", "camera.get_active_tracks">>)

BinningInputs == {<<1, 1>>, <<2, 2>>, <<0, 1>>, <<1>>}

set_image_advanced_binning(b) ==
    IF \/ RejectedWhileLocked
       \/ Len(b) # 2
       \/ ~(0 < b[1] /\ b[1] < Width) \/ ~(0 < b[2] /\ b[2] < Height)
    THEN Returns("image_advanced_binning", b)
    ELSE SetterStep("image_advanced_binning", b, FALSE,
                    [cache EXCEPT !.image_advanced.hbin = b[1],
                                  !.image_advanced.vbin = b[2]], hw, <<>>)

AreaInputs == {<<0, 1, 0, 1>>, <<0, 2, 0, 2>>, <<1, 0, 0, 1>>, <<0, 1, 0>>}
\* `if 0 < hbin*(area[1]-area[0]) < width` and the same vertically
AreaRefusedAsTooBig(a) ==
    \/ 0 < cache.image_advanced.hbin * (a[2] - a[1])
         /\ cache.image_advanced.hbin * (a[2] - a[1]) < Width
    \/ 0 < cache.image_advanced.vbin * (a[4] - a[3])
         /\ cache.image_advanced.vbin * (a[4] - a[3]) < Height

set_image_advanced_area(a) ==
    IF \/ RejectedWhileLocked
       \/ Len(a) # 4
       \/ ~(0 <= a[1] /\ a[1] < a[2] /\ a[2] < Width)
       \/ ~(0 <= a[3] /\ a[3] < a[4] /\ a[4] < Height)
       \/ AreaRefusedAsTooBig(a)
    THEN Returns("image_advanced_area", a)
    ELSE SetterStep("image_advanced_area", a, FALSE,
                    [cache EXCEPT !.image_advanced.hstart = a[1],
                                  !.image_advanced.hend = a[2],
                                  !.image_advanced.vstart = a[3],
                                  !.image_advanced.vend = a[4]], hw, <<>>)

set_acquisition_mode(m) ==
    IF RejectedWhileLocked \/ m \notin AcquisitionModes
    THEN Returns("acquisition_mode", m)
    ELSE SetterStep("acquisition_mode", m, FALSE,
                    [cache EXCEPT !.acquisition_mode = m], hw, <<>>)

set_camera_gain(v) ==
    IF \/ RejectedWhileLocked
       \/ v \notin InternalGains
       \/ v = cache.camera_gain
    THEN Returns("camera_gain", v)
    ELSE LET h == [hw EXCEPT !.gain = Listed(InternalGains, @, v)]
         IN SetterStep("camera_gain", v, FALSE,
                       [cache EXCEPT !.camera_gain = h.gain], h,
                       <<"camera.set_gain", "camera.get_gain">>)

\* camera().set_exposure_time(v); self._exposure_time = camera().get_exposure_time()
ExposureCached(h, v) == h.exposure_time

set_exposure_time(v) ==
    IF \/ RejectedWhileLocked
       \/ ~(v > 0)
       \/ v = cache.exposure_time
    THEN Returns("exposure_time", v)
    ELSE LET h == [hw EXCEPT !.exposure_time = Snap(v)]
         IN SetterStep("exposure_time", v, FALSE,
                       [cache EXCEPT !.exposure_time = ExposureCached(h, v)], h,
                       <<"camera.set_exposure_time", "camera.get_exposure_time">>)

set_accumulation_delay(v) ==
    IF \/ RejectedWhileLocked
       \/ ~(v > 0)
       \/ ~(cache.exposure_time < v
            /\ v * cache.number_accumulated_scan < cache.scan_delay)
       \/ v = cache.accumulation_delay
    THEN Returns("accumulation_delay", v)
    ELSE SetterStep("accumulation_delay", v, FALSE,
                    [cache EXCEPT !.accumulation_delay = v], hw, <<>>)

IsAccumulationMode(m) == m \in {"ACC_SINGLE_SCAN", "ACC_MULTI_SCAN"}

set_scan_delay(v) ==
    IF \/ RejectedWhileLocked
       \/ ~(v > 0)
       \/ ~(cache.exposure_time < v)
       \/ (~(cache.accumulation_delay < v) /\ IsAccumulationMode(cache.acquisition_mode))
       \/ v = cache.scan_delay
    THEN Returns("scan_delay", v)
    ELSE SetterStep("scan_delay", v, FALSE, [cache EXCEPT !.scan_delay = v], hw, <<>>)

\* the check against scan_delay only logs: there is no return after it
set_number_accumulated_scan(n) ==
    IF \/ RejectedWhileLocked
       \/ ~(n > 0)
       \/ n = cache.number_accumulated_scan
    THEN Returns("number_accumulated_scan", n)
    ELSE SetterStep("number_accumulated_scan", n, FALSE,
                    [cache EXCEPT !.number_accumulated_scan = n], hw, <<>>)

set_number_of_scan(n) ==
    IF \/ RejectedWhileLocked
       \/ ~(n > 0)
       \/ n = cache.number_of_scan
    THEN Returns("number_of_scan", n)
    ELSE SetterStep("number_of_scan", n, FALSE, [cache EXCEPT !.number_of_scan = n], hw, <<>>)

TriggerInputs == TriggerModes \cup {"TriggerMode.EXTERNAL", "SOFTWARE"}

set_trigger_mode(m) ==
    IF \/ RejectedWhileLocked
       \/ EnumName(m) \notin TriggerModes
       \/ EnumName(m) = cache.trigger_mode
    THEN Returns("trigger_mode", m)
    ELSE LET h == [hw EXCEPT !.trigger_mode = EnumName(m)]
         IN SetterStep("trigger_mode", m, FALSE,
                       [cache EXCEPT !.trigger_mode = h.trigger_mode], h,
                       <<"camera.set_trigger_mode", "camera.get_trigger_mode">>)

\* the three setters below have no lock check
AsShutterState(x) == IF x \in ShutterNames THEN ShutterStateOf(x) ELSE x
ShutterInputs == ShutterNames \cup ShutterEnums \cup {"AUTO"}

set_shutter_state(x) ==
    IF \/ ~HasShutter
       \/ cache.shutter_state = x
       \/ AsShutterState(x) \notin ShutterEnums
    THEN Returns("shutter_state", x)
    ELSE LET h == [hw EXCEPT !.shutter = AsShutterState(x)]
         IN SetterStep("shutter_state", x, FALSE,
                       [cache EXCEPT !.shutter_state = EnumName(h.shutter)], h,
                       <<"camera.set_shutter_state", "camera.get_shutter_state">>)

set_cooler_status(b) ==
    IF ~HasCooler
    THEN Returns("cooler_status", b)
    ELSE SetterStep("cooler_status", b, FALSE, cache,
                    [hw EXCEPT !.cooler_on = b], <<"camera.set_cooler_on">>)

set_camera_temperature_setpoint(t) ==
    IF ~HasCooler \/ t <= 0
    THEN Returns("camera_temperature_setpoint", t)
    ELSE LET h == [hw EXCEPT !.temperature_setpoint = Snap(t)]
         IN SetterStep("camera_temperature_setpoint", t, FALSE,
                       [cache EXCEPT !.temperature_setpoint = h.temperature_setpoint], h,
                       <<"camera.set_temperature_setpoint",
                         "camera.get_temperature_setpoint">>)

Setters ==
    \/ \E v \in NoneVal..MaxGratings : set_grating_index(v)
    \/ \E w \in Numbers : set_center_wavelength(w)
    \/ \E c \in Numbers : set_wavelength_calibration(c)
    \/ \E p \in PortInputs(InputPorts) : set_input_port(p)
    \/ \E p \in PortInputs(OutputPorts) : set_output_port(p)
    \/ \E v \in 1..MaxValue, arg \in SlitPortArgs : set_input_slit_width(v, arg)
    \/ \E v \in 1..MaxValue, arg \in SlitPortArgs : set_output_slit_width(v, arg)
    \/ \E m \in ReadModeInputs : set_read_mode(m)
    \/ \E v \in Numbers : set_readout_speed(v)
    \/ \E t \in TrackInputs : set_active_tracks(t)
    \/ \E b \in BinningInputs : set_image_advanced_binning(b)
    \/ \E a \in AreaInputs : set_image_advanced_area(a)
    \/ \E m \in AcquisitionModes \cup {"KINETIC"} : set_acquisition_mode(m)
    \/ \E v \in Numbers : set_camera_gain(v)
    \/ \E v \in Numbers : set_exposure_time(v)
    \/ \E v \in Numbers : set_accumulation_delay(v)
    \/ \E v \in Numbers : set_scan_delay(v)
    \/ \E n \in Numbers : set_number_accumulated_scan(n)
    \/ \E n \in Numbers : set_number_of_scan(n)
    \/ \E m \in TriggerInputs : set_trigger_mode(m)
    \/ \E x \in ShutterInputs : set_shutter_state(x)
    \/ \E b \in BOOLEAN : set_cooler_status(b)
    \/ \E t \in Numbers : set_camera_temperature_setpoint(t)

\* SpectrumLogic as an acquisition state machine: activation, the acquisition
\* handlers, the camera, and the setters of the acquisition settings
Next ==
    \/ on_activate
    \/ start_acquisition
    \/ camera_finishes
    \/ check_status
    \/ loop_acquisition(TRUE)
    \/ loop_acquisition(FALSE)
    \/ stop_acquisition
    \/ \E m \in AcquisitionModes \cup {"KINETIC"} : set_acquisition_mode(m)
    \/ \E n \in Numbers : set_number_of_scan(n)

\* SpectrumLogic as a property store: every setter, on a module that
\* activation, start_acquisition and the status poll take through 'idle' and
\* 'locked' (the handlers left out change neither the module state nor any
\* cached value or register)
NextSetters ==
    \/ on_activate
    \/ start_acquisition
    \/ camera_finishes
    \/ check_status
    \/ Setters

\* ------------------------------------------------------------- TimeHarp260
\* The vendor library th260lib64 is reached through self._dll; every call
\* returns a status code, 0 for success and a negative code for an error.
\* Within one method every vendor call returns the same code.
MODE_HIST == 0
MODE_T2 == 2
MODE_T3 == 3
ACQTMIN == 1
ACQTMAX == 36000000
BINSTEPSMAX == 22
SlowBinning == 21       \* set_binning(21): the binning of slow counting
MaxMode == 4            \* initialize(mode) is called with mode in 0..MaxMode
MaxBinWidth == 2        \* fast_bin_width_s, in units of the base resolution
MaxFrequency == 2       \* clock_frequency handed to set_up_clock
MaxDriverCalls == 5     \* driver method calls explored per behaviour

VendorCodes == {0, -1, -2}
\* the codes `#define`d in errorcodesTH.h, the keys of self.error_code
ErrorTable == {-1}
VCall(fn, arg) == [fn |-> fn, arg |-> arg]

\* check(func_val): a non-zero code is formatted with self.error_code[func_val],
\* which raises KeyError for a code the table does not hold
CheckRaises(func_val) == func_val # 0 /\ func_val \notin ErrorTable
\* `return func_val`
Check(func_val) == func_val

\* exposure_time in seconds, as the fraction num / den
Seconds(num, den) == [num |-> num, den |-> den]
DefaultExposure == Seconds(1, 10)
\* int(self.exposure_time * 1000)
ExposureMs(e) == (1000 * e.num) \div e.den

\* the driver after __init__ and the device at power-up
InitTimeHarp ==
    /\ th = [activated |-> FALSE, connected |-> FALSE, meas_run |-> FALSE,
             slow_or_fast |-> "none", fast_bin_width |-> NoneVal, configured |-> FALSE,
             exposure |-> DefaultExposure, mode |-> MODE_HIST,
             binning |-> 0, hist |-> "cleared", running |-> FALSE, acq_time |-> 0,
             pc |-> "out", ctc_status |-> 0]
    /\ th_calls = <<>>
    /\ th_last = [op |-> "none", arg |-> NoneVal, ret |-> "None", raised |-> FALSE]
    /\ th_count = 0

ThStep(op, arg, ret, raised, new_th, new_calls) ==
    /\ th_count < MaxDriverCalls
    /\ th_count' = th_count + 1
    /\ th' = new_th
    /\ th_calls' = new_calls
    /\ th_last' = [op |-> op, arg |-> arg, ret |-> IF raised THEN "raised" ELSE ret,
                   raised |-> raised]
    /\ UNCHANGED <<logic_vars, interfuse_vars, sh_vars, other_vars>>

\* the test of initialize(): `not ((mode != MODE_HIST) or (mode != MODE_T2) or
\* (mode != MODE_T3))`
InitializeRejects(mode) ==
    ~((mode # MODE_HIST) \/ (mode # MODE_T2) \/ (mode # MODE_T3))
InitializeCalls(mode) ==
    IF InitializeRejects(mode) THEN <<>> ELSE <<VCall("TH260_Initialize", mode)>>

\* on_activate: open_connection, initialize(self._mode), the channel and sync
\* settings from the configuration, set_binning(21), 'slow', set_hist_len
th_on_activate(rc) ==
    /\ ~th.activated
    /\ IF CheckRaises(rc)
       THEN ThStep("on_activate", NoneVal, "None", TRUE, th,
                   <<VCall("TH260_OpenDevice", NoneVal)>>)
       ELSE ThStep("on_activate", NoneVal, "None", FALSE,
                   [th EXCEPT !.activated = TRUE,
                              !.connected = (Check(rc) >= 0),
                              !.slow_or_fast = "slow",
                              !.exposure = DefaultExposure,
                              !.fast_bin_width = NoneVal,
                              !.configured = FALSE,
                              !.binning = IF rc = 0 THEN SlowBinning ELSE @],
                   <<VCall("TH260_OpenDevice", NoneVal)>> \o InitializeCalls(th.mode) \o
                   <<VCall("TH260_GetNumOfInputChannels", NoneVal),
                     VCall("TH260_SetInputChannelEnable", 1),
                     VCall("TH260_SetInputCFD", NoneVal),
                     VCall("TH260_SetInputChannelOffset", NoneVal),
                     VCall("TH260_SetSyncCFD", NoneVal),
                     VCall("TH260_SetSyncDiv", 1),
                     VCall("TH260_SetSyncChannelOffset", NoneVal),
                     VCall("TH260_SetBinning", SlowBinning),
                     VCall("TH260_GetBaseResolution", NoneVal),
                     VCall("TH260_SetHistoLen", NoneVal)>>)

\* on_deactivate: close_connection()
th_on_deactivate(rc) ==
    /\ th.activated
    /\ ThStep("on_deactivate", NoneVal, "None", CheckRaises(rc),
              [th EXCEPT !.activated = FALSE, !.connected = FALSE],
              <<VCall("TH260_CloseDevice", NoneVal)>>)

\* open_connection: connected_to_device = True `if returned >= 0`
th_open_connection(rc) ==
    /\ th.activated
    /\ ThStep("open_connection", NoneVal, "None", CheckRaises(rc),
              IF ~CheckRaises(rc) /\ Check(rc) >= 0 THEN [th EXCEPT !.connected = TRUE] ELSE th,
              <<VCall("TH260_OpenDevice", NoneVal)>>)

\* close_connection: the flag is cleared before the vendor call
th_close_connection(rc) ==
    /\ th.activated
    /\ ThStep("close_connection", NoneVal, "None", CheckRaises(rc),
              [th EXCEPT !.connected = FALSE],
              <<VCall("TH260_CloseDevice", NoneVal)>>)

th_initialize(mode, rc) ==
    /\ th.activated
    /\ ThStep("initialize", mode, "None",
              CheckRaises(rc) /\ InitializeCalls(mode) # <<>>,
              [th EXCEPT !.mode = mode], InitializeCalls(mode))

\* set_up_clock: `if clock_frequency != 0: self.exposure_time = 1 / clock_frequency`;
\* None != 0 is true and 1 / None raises TypeError
th_set_up_clock(clock_frequency) ==
    /\ th.activated
    /\ IF clock_frequency # 0
       THEN IF clock_frequency = NoneVal
            THEN ThStep("set_up_clock", clock_frequency, "0", TRUE, th, <<>>)
            ELSE ThStep("set_up_clock", clock_frequency, "0", FALSE,
                        [th EXCEPT !.exposure = Seconds(1, clock_frequency)], <<>>)
       ELSE ThStep("set_up_clock", clock_frequency, "0", FALSE,
                   [th EXCEPT !.exposure = DefaultExposure], <<>>)

\* start(acq_time): the vendor call is made for ACQTMIN <= acq_time <= ACQTMAX
StartCalls(acq_time) ==
    IF ACQTMIN <= acq_time /\ acq_time <= ACQTMAX
    THEN <<VCall("TH260_StartMeas", acq_time)>> ELSE <<>>

\* get_counter_hist, entered with the attributes t: start(exposure), wait for
\* CTCStatus to report the end, TH260_StopMeas, meas_run = False,
\* get_histogram(channel, 1).  (A vendor error the table knows leaves
\* ctc_status at 0 and the wait spinning: the method does not return.)
CounterHist(t, rc) ==
    LET ms == ExposureMs(t.exposure)
        planned == StartCalls(ms) \o
                   <<VCall("TH260_CTCStatus", NoneVal), VCall("TH260_StopMeas", NoneVal),
                     VCall("TH260_SetHistoLen", NoneVal),
                     VCall("TH260_GetNumOfInputChannels", NoneVal),
                     VCall("TH260_GetHistogram", 1)>>
    IN  IF CheckRaises(rc)
        THEN [th |-> t, calls |-> <<Head(planned)>>, raised |-> TRUE, ret |-> "raised"]
        ELSE [th |-> [t EXCEPT !.meas_run = FALSE, !.running = FALSE, !.hist = "cleared",
                               !.acq_time = IF StartCalls(ms) # <<>> THEN ms ELSE @],
              calls |-> planned, raised |-> FALSE, ret |-> "counts"]

\* get_counter: array of -1 while a fast measurement runs; coming from 'fast'
\* with no measurement running it first goes back to slow counting
\* (set_up_counter); then get_counter_hist
FastMeasurementRunning_never == FALSE
FastMeasurementRunning == th.meas_run /\ th.slow_or_fast = "fast"

th_get_counter(rc) ==
    /\ th.activated
    /\ rc \notin ErrorTable
    /\ IF FastMeasurementRunning
       THEN ThStep("get_counter", NoneVal, "array(-1)", FALSE, th, <<>>)
       ELSE IF ~th.meas_run /\ th.slow_or_fast = "fast"
       THEN IF CheckRaises(rc)
            THEN ThStep("get_counter", NoneVal, "raised", TRUE, th,
                        <<VCall("TH260_SetBinning", SlowBinning)>>)
            ELSE LET h == CounterHist([th EXCEPT !.binning = SlowBinning,
                                                 !.slow_or_fast = "slow",
                                                 !.meas_run = TRUE], rc)
                 IN  ThStep("get_counter", NoneVal, h.ret, h.raised, h.th,
                            <<VCall("TH260_SetBinning", SlowBinning)>> \o h.calls)
       ELSE IF ~th.meas_run /\ th.slow_or_fast = "slow"
       THEN LET h == CounterHist([th EXCEPT !.meas_run = TRUE], rc)
            IN  ThStep("get_counter", NoneVal, h.ret, h.raised, h.th, h.calls)
       ELSE LET h == CounterHist(th, rc)
            IN  ThStep("get_counter", NoneVal, h.ret, h.raised, h.th, h.calls)

\* get_counter one step at a time, for the wait of get_counter_hist: th.pc is
\* the position of the call in progress ("out": none), th.ctc_status the local
\* ctc_status.  CTCStatus writes 0 while the acquisition time runs and a value
\* > 0 once it has ended; which value is the library's choice.
CtcCodes == {0, 1, 2}
HighFrequency == 2000   \* a clock frequency above 1 kHz
ClockFrequencies == (1..MaxFrequency) \cup {HighFrequency}

HistStep(new_th, new_calls, new_last) ==
    /\ th_count < MaxDriverCalls
    /\ th_count' = th_count + 1
    /\ th' = new_th
    /\ th_calls' = new_calls
    /\ th_last' = new_last
    /\ UNCHANGED <<logic_vars, interfuse_vars, sh_vars, other_vars>>

\* get_counter up to and including self.start(int(self.exposure_time * 1000))
th_counter_hist_enter(rc) ==
    /\ th.activated
    /\ th.pc = "out"
    /\ ~FastMeasurementRunning
    /\ LET from_fast == ~th.meas_run /\ th.slow_or_fast = "fast"
           ms == ExposureMs(th.exposure)
           binning_calls == IF from_fast THEN <<VCall("TH260_SetBinning", SlowBinning)>>
                            ELSE <<>>
           entered == IF from_fast
                      THEN [th EXCEPT !.binning = IF rc = 0 THEN SlowBinning ELSE @,
                                      !.slow_or_fast = "slow", !.meas_run = TRUE]
                      ELSE [th EXCEPT !.meas_run = TRUE]
       IN  IF CheckRaises(rc) /\ from_fast
           THEN HistStep(th, binning_calls,
                         [op |-> "get_counter", arg |-> NoneVal, ret |-> "raised",
                          raised |-> TRUE])
           ELSE IF CheckRaises(rc) /\ StartCalls(ms) # <<>>
           THEN HistStep(entered, StartCalls(ms),
                         [op |-> "get_counter", arg |-> NoneVal, ret |-> "raised",
                          raised |-> TRUE])
           ELSE HistStep([entered EXCEPT
                             !.pc = "poll", !.ctc_status = 0,
                             !.running = IF StartCalls(ms) # <<>> /\ rc = 0 THEN TRUE ELSE @,
                             !.acq_time = IF StartCalls(ms) # <<>> /\ rc = 0 THEN ms ELSE @],
                         binning_calls \o StartCalls(ms), th_last)

\* `while ctc_status != 1: ctc_status = self._get_status()`: one turn.  A
\* vendor error the table knows is logged and leaves the c_int32 at 0.
LoopEnds(ctc_status) == ctc_status = 1
th_counter_hist_poll(written, rc) ==
    /\ th.pc = "poll"
    /\ IF CheckRaises(rc)
       THEN HistStep([th EXCEPT !.pc = "out"],
                     Append(th_calls, VCall("TH260_CTCStatus", NoneVal)),
                     [op |-> "get_counter", arg |-> NoneVal, ret |-> "raised",
                      raised |-> TRUE])
       ELSE LET ctc_status == IF rc = 0 THEN written ELSE 0
            IN  HistStep([th EXCEPT !.ctc_status = ctc_status,
                                    !.pc = IF LoopEnds(ctc_status) THEN "stop" ELSE "poll"],
                         Append(th_calls, VCall("TH260_CTCStatus", NoneVal)), th_last)

\* after the loop: TH260_StopMeas, meas_run = False, get_histogram, return
th_counter_hist_leave(rc) ==
    /\ th.pc = "stop"
    /\ IF CheckRaises(rc)
       THEN HistStep([th EXCEPT !.pc = "out"],
                     Append(th_calls, VCall("TH260_StopMeas", NoneVal)),
                     [op |-> "get_counter", arg |-> NoneVal, ret |-> "raised",
                      raised |-> TRUE])
       ELSE HistStep([th EXCEPT !.pc = "out", !.meas_run = FALSE,
                                !.running = IF rc = 0 THEN FALSE ELSE @],
                     th_calls \o <<VCall("TH260_StopMeas", NoneVal),
                                   VCall("TH260_SetHistoLen", NoneVal),
                                   VCall("TH260_GetNumOfInputChannels", NoneVal),
                                   VCall("TH260_GetHistogram", 1)>>,
                     [op |-> "get_counter", arg |-> NoneVal, ret |-> "counts",
                      raised |-> FALSE])

\* int(np.log2(fast_bin_width_s / self._base_resolution_s)) for a width >= 1
RECURSIVE Log2Floor(_)
Log2Floor(w) == IF w < 2 THEN 0 ELSE 1 + Log2Floor(w \div 2)

\* `if not self.meas_run:` guards the switch to 'fast' and set_binning
ConfigureApplies_always(meas_run) == TRUE
ConfigureApplies(meas_run) == ~meas_run

\* configure(fast_bin_width_s, ...), entered with the attributes t.
\*   None  : HISTCHAN * None raises TypeError, after _fast_bin_width_s = None
\*   0     : int(np.log2(0)) raises OverflowError, after the switch to 'fast'
Configure(t, width, rc) ==
    LET stored == [t EXCEPT !.fast_bin_width = width] IN
    IF width = NoneVal
    THEN [th |-> stored, calls |-> <<>>, raised |-> TRUE]
    ELSE IF ~ConfigureApplies(t.meas_run)
    THEN [th |-> stored, calls |-> <<>>, raised |-> FALSE]
    ELSE IF width = 0
    THEN [th |-> [stored EXCEPT !.slow_or_fast = "fast"], calls |-> <<>>, raised |-> TRUE]
    ELSE LET bin_code == Log2Floor(width)
             in_range == 0 <= bin_code /\ bin_code < BINSTEPSMAX
         IN  [th |-> [stored EXCEPT !.slow_or_fast = "fast",
                                    !.binning = IF in_range /\ rc = 0 THEN bin_code ELSE @],
              calls |-> IF in_range THEN <<VCall("TH260_SetBinning", bin_code)>> ELSE <<>>,
              raised |-> in_range /\ CheckRaises(rc)]

\* configure() called by the client of the fast counter
th_configure(width, rc) ==
    /\ th.activated
    /\ LET c == Configure(th, width, rc)
       IN  ThStep("configure", width, "tuple", c.raised,
                  [c.th EXCEPT !.configured = TRUE], c.calls)

\* meas_run = True; clear_hist_memory(); start(ACQTMAX), entered with t
Arm(t, rc) ==
    IF CheckRaises(rc)
    THEN [th |-> [t EXCEPT !.meas_run = TRUE],
          calls |-> <<VCall("TH260_ClearHistMem", NoneVal)>>, raised |-> TRUE]
    ELSE [th |-> [t EXCEPT !.meas_run = TRUE,
                           !.hist = IF rc = 0 THEN "cleared" ELSE @,
                           !.running = IF rc = 0 THEN TRUE ELSE @,
                           !.acq_time = IF rc = 0 THEN ACQTMAX ELSE @],
          calls |-> <<VCall("TH260_ClearHistMem", NoneVal)>> \o StartCalls(ACQTMAX),
          raised |-> FALSE]

\* the first branch of start_measure: `if self.meas_run and self._slow_or_fast == 'slow'`
StartMeasureRefused == th.meas_run /\ th.slow_or_fast = "slow"

th_start_measure(rc) ==
    /\ th.activated
    /\ IF StartMeasureRefused
       THEN ThStep("start_measure", NoneVal, "-1", FALSE, th, <<>>)
       ELSE IF ~th.meas_run /\ th.slow_or_fast = "slow"
       THEN LET c == Configure(th, th.fast_bin_width, rc) IN
            IF c.raised
            THEN ThStep("start_measure", NoneVal, "raised", TRUE, c.th, c.calls)
            ELSE LET a == Arm(c.th, rc)
                 IN  ThStep("start_measure", NoneVal, "0", a.raised, a.th, c.calls \o a.calls)
       ELSE LET a == Arm(th, rc)
            IN  ThStep("start_measure", NoneVal, "0", a.raised, a.th, a.calls)

\* stop_measure, entered with t: nothing in 'slow'; else meas_run = False and
\* stop_device()
StopMeasure(t, rc) ==
    IF t.slow_or_fast = "slow"
    THEN [th |-> t, calls |-> <<>>, raised |-> FALSE]
    ELSE [th |-> [t EXCEPT !.meas_run = FALSE, !.running = IF rc = 0 THEN FALSE ELSE @],
          calls |-> <<VCall("TH260_StopMeas", NoneVal)>>, raised |-> CheckRaises(rc)]

th_stop_measure(rc) ==
    /\ th.activated
    /\ LET s == StopMeasure(th, rc)
       IN  ThStep("stop_measure", NoneVal, "None", s.raised, s.th, s.calls)

\* pause_measure: stop_measure(); meas_run = False
th_pause_measure(rc) ==
    /\ th.activated
    /\ LET s == StopMeasure(th, rc)
       IN  ThStep("pause_measure", NoneVal, "None", s.raised,
                  IF s.raised THEN s.th ELSE [s.th EXCEPT !.meas_run = FALSE], s.calls)

\* continue_measure: configure(...) again unless 'fast'; meas_run = True;
\* start(ACQTMAX)
th_continue_measure(rc) ==
    /\ th.activated
    /\ LET c == IF th.slow_or_fast # "fast"
                THEN Configure(th, th.fast_bin_width, rc)
                ELSE [th |-> th, calls |-> <<>>, raised |-> FALSE]
       IN  IF c.raised
           THEN ThStep("continue_measure", NoneVal, "raised", TRUE, c.th, c.calls)
           ELSE ThStep("continue_measure", NoneVal, "None", CheckRaises(rc),
                       [c.th EXCEPT !.meas_run = TRUE,
                                    !.running = IF rc = 0 THEN TRUE ELSE @,
                                    !.acq_time = IF rc = 0 THEN ACQTMAX ELSE @],
                       c.calls \o StartCalls(ACQTMAX))

\* set_up_counter: set_binning(21), whose check() only logs an error the table
\* knows; _count_channel = counter_channels; return 0
th_set_up_counter(counter_channels, rc) ==
    /\ th.activated
    /\ ThStep("set_up_counter", counter_channels, "0", CheckRaises(rc),
              [th EXCEPT !.binning = IF rc = 0 THEN SlowBinning ELSE @],
              <<VCall("TH260_SetBinning", SlowBinning)>>)

\* stop_device: check(TH260_StopMeas); meas_run = False
th_stop_device(rc) ==
    /\ th.activated
    /\ ThStep("stop_device", NoneVal, "None", CheckRaises(rc),
              IF CheckRaises(rc) THEN th
              ELSE [th EXCEPT !.meas_run = FALSE, !.running = IF rc = 0 THEN FALSE ELSE @],
              <<VCall("TH260_StopMeas", NoneVal)>>)

\* get_status(): changes nothing
GetStatus_running_first ==
    IF th.meas_run THEN "2"
    ELSE IF ~th.connected THEN "-1"
    ELSE IF th.fast_bin_width = NoneVal THEN "0"
    ELSE "1"
GetStatus ==
    IF ~th.connected THEN "-1"
    ELSE IF th.meas_run THEN "2"
    ELSE IF th.fast_bin_width = NoneVal THEN "0"
    ELSE "1"
th_get_status ==
    /\ th.activated
    /\ ThStep("get_status", NoneVal, GetStatus, FALSE, th, <<>>)

\* the device counts photons while it acquires
th_counts_arrive ==
    /\ th.running
    /\ th.hist = "cleared"
    /\ th' = [th EXCEPT !.hist = "filled"]
    /\ UNCHANGED <<th_calls, th_last, th_count, logic_vars, interfuse_vars, sh_vars, other_vars>>

NextTimeHarp ==
    \/ \E rc \in VendorCodes : th_on_activate(rc)
    \/ \E rc \in VendorCodes : th_on_deactivate(rc)
    \/ \E rc \in VendorCodes : th_open_connection(rc)
    \/ \E rc \in VendorCodes : th_close_connection(rc)
    \/ \E mode \in 0..MaxMode, rc \in VendorCodes : th_initialize(mode, rc)
    \/ \E f \in {NoneVal} \cup 0..MaxFrequency : th_set_up_clock(f)
    \/ \E rc \in VendorCodes : th_get_counter(rc)
    \/ \E w \in 0..MaxBinWidth, rc \in VendorCodes : th_configure(w, rc)
    \/ \E rc \in VendorCodes : th_start_measure(rc)
    \/ \E rc \in VendorCodes : th_stop_measure(rc)
    \/ \E rc \in VendorCodes : th_pause_measure(rc)
    \/ \E rc \in VendorCodes : th_continue_measure(rc)
    \/ th_get_status
    \/ th_counts_arrive

\* the slow counter and the fast counter used in turn on an activated driver
NextSlowFast ==
    \/ \E rc \in VendorCodes : th_on_activate(rc)
    \/ \E c \in 0..1, rc \in VendorCodes : th_set_up_counter(c, rc)
    \/ \E rc \in VendorCodes : th_get_counter(rc)
    \/ \E w \in 0..MaxBinWidth, rc \in VendorCodes : th_configure(w, rc)
    \/ \E rc \in VendorCodes : th_start_measure(rc)
    \/ \E rc \in VendorCodes : th_stop_measure(rc)
    \/ \E rc \in VendorCodes : th_pause_measure(rc)
    \/ \E rc \in VendorCodes : th_continue_measure(rc)
    \/ \E rc \in VendorCodes : th_stop_device(rc)

NextCounterHist ==
    \/ \E rc \in VendorCodes : th_on_activate(rc)
    \/ \E f \in ClockFrequencies : th_set_up_clock(f)
    \/ \E rc \in VendorCodes : th_counter_hist_enter(rc)
    \/ \E written \in CtcCodes, rc \in VendorCodes : th_counter_hist_poll(written, rc)
    \/ \E rc \in VendorCodes : th_counter_hist_leave(rc)

\* ------------------------------------------------------------------ Shamrock
\* The spectrograph is reached through the vendor library ShamrockCIF; every
\* call returns a status code.  Within one method every vendor call returns
\* the same code.
SHAMROCK_SUCCESS == 20202
\* the status codes the error-code table holds
ERROR_CODE == {20201, 20202, 20266, 20267, 20268, 20269, 20270, 20275}
\* the status codes the library is taken to return: success, an error of the
\* table, an error the table does not hold
ShamrockCodes == {SHAMROCK_SUCCESS, 20201, 20204}
InputFlipper == 1
OutputFlipper == 2
Flippers == {InputFlipper, OutputFlipper}
FlipperPorts == {0, 1}

\* Python truth value of an int
Truthy(v) == v # 0

\* Shamrock.check(func_val): logs self.errorcode[func_val] for a code other
\* than success (KeyError for a code the table does not hold), returns func_val
ShCheckRaises(func_val) == func_val # SHAMROCK_SUCCESS /\ func_val \notin ERROR_CODE
ShCheck(func_val) == func_val

\* Shamrock.error_message(error): prints ERROR_CODE[error] and returns 0 for a
\* code other than success, returns 1 for success
ErrorMessageRaises(error) == error # SHAMROCK_SUCCESS /\ error \notin ERROR_CODE
ErrorMessage(error) == IF error # SHAMROCK_SUCCESS THEN 0 ELSE 1

MaxSlit == 2            \* auto slits are asked for by the indexes 1..MaxSlit
SlitIndexes == 1..MaxSlit
\* the width the spectrograph holds for a slit before any is written
PowerUpSlitWidth == 1

InitShamrock(flipper_sets, slit_sets) ==
    /\ \E present \in flipper_sets, slits \in slit_sets :
         sh = [activated |-> FALSE, spectrometer_status |-> 0, has_device |-> FALSE,
               present |-> present, port |-> [f \in Flippers |-> 0],
               slit_present |-> slits,
               slit_width |-> [s \in SlitIndexes |-> PowerUpSlitWidth]]
    /\ sh_calls = <<>>
    /\ sh_last = [op |-> "none", arg |-> NoneVal, code |-> NoneVal, ret |-> NoneVal,
                  raised |-> FALSE]
    /\ sh_count = 0

\* one method call; code is the status the library returned during the call
ShStepWith(op, arg, code, ret, raised, new_sh, new_calls) ==
    /\ sh_count < MaxDriverCalls
    /\ sh_count' = sh_count + 1
    /\ sh' = new_sh
    /\ sh_calls' = new_calls
    /\ sh_last' = [op |-> op, arg |-> arg, code |-> code,
                   ret |-> IF raised THEN NoneVal ELSE ret, raised |-> raised]
    /\ UNCHANGED <<logic_vars, interfuse_vars, th_vars, other_vars>>
ShStep(op, arg, ret, raised, new_sh, new_calls) ==
    ShStepWith(op, arg, NoneVal, ret, raised, new_sh, new_calls)

\* on_activate: ShamrockInitialize; on a code other than success
\* on_deactivate() (ShamrockClose), else status 1, deviceID 0, get_grating()
sh_on_activate(code) ==
    /\ ~sh.activated
    /\ IF code # SHAMROCK_SUCCESS
       THEN ShStep("on_activate", NoneVal, NoneVal, FALSE,
                   [sh EXCEPT !.activated = TRUE, !.spectrometer_status = 0],
                   <<VCall("ShamrockInitialize", NoneVal), VCall("ShamrockClose", NoneVal)>>)
       ELSE ShStep("on_activate", NoneVal, NoneVal, FALSE,
                   [sh EXCEPT !.activated = TRUE, !.spectrometer_status = 1,
                              !.has_device = TRUE],
                   <<VCall("ShamrockInitialize", NoneVal),
                     VCall("ShamrockGetNumberDevices", NoneVal),
                     VCall("ShamrockGetGrating", NoneVal)>>)

\* on_deactivate: return self.dll.ShamrockClose()
sh_on_deactivate ==
    /\ sh.activated
    /\ ShStep("on_deactivate", NoneVal, NoneVal, FALSE,
              [sh EXCEPT !.activated = FALSE], <<VCall("ShamrockClose", NoneVal)>>)

\* the flipper whose presence get_input_port / get_output_port asks for:
\* shamrock_flipper_mirror_is_present(2) in both
PresenceAsked(flipper) == OutputFlipper

\* get_input_port (flipper 1) and get_output_port (flipper 2): self.deviceID
\* is read first (AttributeError when on_activate did not set it), then
\* ShamrockFlipperMirrorIsPresent, then ShamrockGetFlipperMirror if present
GetPort(op, flipper, code) ==
    LET asked == PresenceAsked(flipper)
        is_present == VCall("ShamrockFlipperMirrorIsPresent", asked)
        present == IF code = SHAMROCK_SUCCESS /\ sh.present[asked] THEN 1 ELSE 0
        value == IF code = SHAMROCK_SUCCESS THEN sh.port[flipper] ELSE 0
    IN  IF ~sh.has_device
        THEN ShStep(op, NoneVal, NoneVal, TRUE, sh, <<>>)
        ELSE IF ShCheckRaises(code)
        THEN ShStep(op, NoneVal, NoneVal, TRUE, sh, <<is_present>>)
        ELSE IF present = 1
        THEN ShStep(op, NoneVal, value, FALSE, sh,
                    <<is_present, VCall("ShamrockGetFlipperMirror", flipper)>>)
        ELSE ShStep(op, NoneVal, 0, FALSE, sh, <<is_present>>)

sh_get_input_port(code) == sh.activated /\ GetPort("get_input_port", InputFlipper, code)
sh_get_output_port(code) == sh.activated /\ GetPort("get_output_port", OutputFlipper, code)

\* set_input_port / set_output_port with an int: ShamrockSetFlipperMirror, return 0
SetPort(op, flipper, port, code) ==
    IF ~sh.has_device
    THEN ShStep(op, port, NoneVal, TRUE, sh, <<>>)
    ELSE ShStep(op, port, 0, ShCheckRaises(code),
                IF code = SHAMROCK_SUCCESS /\ sh.present[flipper]
                THEN [sh EXCEPT !.port[flipper] = port] ELSE sh,
                <<VCall("ShamrockSetFlipperMirror", flipper)>>)

sh_set_input_port(port, code) == sh.activated /\ SetPort("set_input_port", InputFlipper, port, code)
sh_set_output_port(port, code) == sh.activated /\ SetPort("set_output_port", OutputFlipper, port, code)

\* `if self.shamrock_auto_slit_is_present(slit_index) == 1:`
AutoSlitRead_always(present) == TRUE
AutoSlitRead(present) == present = 1

\* get_auto_slit_width(slit_index): ShamrockAutoSlitIsPresent, then
\* ShamrockGetAutoSlitWidth and the width if present, else -1
sh_get_auto_slit_width(slit_index, code) ==
    /\ sh.activated
    /\ LET is_present == VCall("ShamrockAutoSlitIsPresent", slit_index)
           present == IF code = SHAMROCK_SUCCESS /\ sh.slit_present[slit_index] THEN 1 ELSE 0
           width == IF code = SHAMROCK_SUCCESS THEN sh.slit_width[slit_index] ELSE 0
       IN  IF ~sh.has_device
           THEN ShStepWith("get_auto_slit_width", slit_index, code, NoneVal, TRUE, sh, <<>>)
           ELSE IF ShCheckRaises(code)
           THEN ShStepWith("get_auto_slit_width", slit_index, code, NoneVal, TRUE, sh,
                           <<is_present>>)
           ELSE IF AutoSlitRead(present)
           THEN ShStepWith("get_auto_slit_width", slit_index, code, width, FALSE, sh,
                           <<is_present, VCall("ShamrockGetAutoSlitWidth", slit_index)>>)
           ELSE ShStepWith("get_auto_slit_width", slit_index, code, -1, FALSE, sh,
                           <<is_present>>)

\* set_auto_slit_width(slit_index, slit_width): ShamrockSetAutoSlitWidth when
\* slit_width is a float (is_float), else a debug message; returns 0
sh_set_auto_slit_width(slit_index, slit_width, is_float, code) ==
    /\ sh.activated
    /\ IF ~is_float
       THEN ShStepWith("set_auto_slit_width", slit_index, code, 0, FALSE, sh, <<>>)
       ELSE IF ~sh.has_device
       THEN ShStepWith("set_auto_slit_width", slit_index, code, NoneVal, TRUE, sh, <<>>)
       ELSE ShStepWith("set_auto_slit_width", slit_index, code, 0, ShCheckRaises(code),
                       IF code = SHAMROCK_SUCCESS /\ sh.slit_present[slit_index]
                       THEN [sh EXCEPT !.slit_width[slit_index] = slit_width] ELSE sh,
                       <<VCall("ShamrockSetAutoSlitWidth", slit_index)>>)

\* check(func_val) called with a vendor status code
sh_check(func_val) ==
    /\ sh.activated
    /\ ShStep("check", func_val, ShCheck(func_val), ShCheckRaises(func_val), sh, <<>>)

\* error_message(error) called with a vendor status code
sh_error_message(error) ==
    /\ sh.activated
    /\ ShStep("error_message", error, ErrorMessage(error), ErrorMessageRaises(error), sh, <<>>)

NextShamrock ==
    \/ \E code \in ShamrockCodes : sh_on_activate(code)
    \/ sh_on_deactivate
    \/ \E code \in ShamrockCodes : sh_get_input_port(code)
    \/ \E code \in ShamrockCodes : sh_get_output_port(code)
    \/ \E port \in FlipperPorts, code \in ShamrockCodes : sh_set_input_port(port, code)
    \/ \E port \in FlipperPorts, code \in ShamrockCodes : sh_set_output_port(port, code)
    \/ \E s \in SlitIndexes, code \in ShamrockCodes : sh_get_auto_slit_width(s, code)
    \/ \E s \in SlitIndexes, w \in Numbers, is_float \in BOOLEAN, code \in ShamrockCodes :
          sh_set_auto_slit_width(s, w, is_float, code)
    \/ \E code \in ShamrockCodes : sh_check(code)
    \/ \E code \in ShamrockCodes : sh_error_message(code)

\* ------------------------------ SpectrumLogic: reject_cosmic, wavelength_spectrum
\* Both methods read attributes of the module and return a value; sl_last
\* records the call.  A scan is one sample per pixel column; a stack is a
\* sequence of scans (the first numpy axis).
MaxSample == 2          \* samples are drawn from 0..MaxSample
MaxStack == 2           \* longest stack handed to reject_cosmic
coeff_rej_cosmic_num == 11       \* _coeff_rej_cosmic = 2.2 = 11/5
coeff_rej_cosmic_den == 5

Columns == {1, 2}
Samples == 0..MaxSample
Scans == [Columns -> Samples]
Stacks == UNION {[1..n -> Scans] : n \in 0..MaxStack}

RECURSIVE Sum(_)
Sum(seq) == IF seq = <<>> THEN 0 ELSE Head(seq) + Sum(Tail(seq))
Squares(seq) == [k \in 1..Len(seq) |-> seq[k] * seq[k]]
Largest(seq) == CHOOSE v \in Range(seq) \cup {0} : \A u \in Range(seq) : u <= v
Abs(v) == IF v < 0 THEN -v ELSE v
\* data[:, p]
PixelColumn(data, p) == [k \in 1..Len(data) |-> data[k][p]]

\* np.nanstd(v) of the n numbers v[k] = nums[k] / d, with no NaN among them, is
\* sqrt(n * sum(nums^2) - sum(nums)^2) / (n * d): StdRadicand is what stands
\* under the root, StdTimes the root itself where it is an integer.
StdRadicand(nums) == Len(nums) * Sum(Squares(nums)) - Sum(nums) * Sum(nums)
StdTimes(nums) ==
    CHOOSE r \in 0..(Len(nums) * Largest(nums)) :
        r * r <= StdRadicand(nums) /\ StdRadicand(nums) < (r + 1) * (r + 1)
StdIsExact(nums) == StdTimes(nums) * StdTimes(nums) = StdRadicand(nums)

\* mean_data = np.nanstd(data, axis=0): n * mean_data of one pixel column
MeanDataTimes(col) == StdTimes(col)
\* (data - mean_data)**2: n^2 times it, sample by sample
SquaredDeviationTimes(col) ==
    [k \in 1..Len(col) |-> (Len(col) * col[k] - MeanDataTimes(col))
                             * (Len(col) * col[k] - MeanDataTimes(col))]
\* std_dev_data = np.nanstd((data - mean_data)**2, axis=0): n^3 times it
StdDevDataTimes(col) == StdTimes(SquaredDeviationTimes(col))

\* np.ma.masked_outside(pixel, mask_min, mask_max) with
\* mask_min/max = mean_data -/+ std_dev_data * _coeff_rej_cosmic; every term
\* is scaled by coeff_rej_cosmic_den * n^3
MaskedOutside(col, x) ==
    LET n == Len(col)
        scaled == coeff_rej_cosmic_den * n * n * n * x
        centre == coeff_rej_cosmic_den * n * n * MeanDataTimes(col)
        spread == coeff_rej_cosmic_num * StdDevDataTimes(col)
    IN  scaled < centre - spread \/ scaled > centre + spread

\* the stacks whose statistics are rational numbers, so that the comparisons
\* above are exact
ExactStack(data) ==
    \A p \in Columns :
        /\ StdIsExact(PixelColumn(data, p))
        /\ StdIsExact(SquaredDeviationTimes(PixelColumn(data, p)))

\* `if len(data) < self._number_accumulated_scan`
TooFewScans_never(data, number_accumulated_scan) == FALSE
TooFewScans(data, number_accumulated_scan) == Len(data) < number_accumulated_scan

NoResult == [kind |-> "None", mask |-> <<>>, axis |-> <<>>]
NoCall == [op |-> "none", arg |-> <<>>, ret |-> NoResult, log |-> "none",
           statistic |-> FALSE, raised |-> FALSE]

\* reject_cosmic(data), called with the stack the caller holds: the returned
\* masked array keeps data and carries one mask bit per sample
reject_cosmic ==
    /\ sl_last' =
         LET data == stack IN
         IF TooFewScans(data, cache.number_accumulated_scan)
         THEN [op |-> "reject_cosmic", arg |-> data, ret |-> NoResult, log |-> "error",
               statistic |-> FALSE, raised |-> FALSE]
         ELSE [op |-> "reject_cosmic", arg |-> data,
               ret |-> [kind |-> "masked_array",
                        mask |-> [k \in 1..Len(data) |->
                                    [p \in Columns |->
                                        MaskedOutside(PixelColumn(data, p), data[k][p])]],
                        axis |-> <<>>],
               log |-> "none", statistic |-> TRUE, raised |-> FALSE]
    /\ UNCHANGED <<logic_vars, interfuse_vars, th_vars, sh_vars,
                   optics, stack, sv, stepper, pol, shl, npz>>

\* spectro_constraints.gratings[i].ruling
Ruling(g) == g + 1

\* np.arange(-image_width//2, image_width//2 - image_width%2) * pixel_width
PixelsVector(image_width, pixel_width) ==
    LET first == (-image_width) \div 2
        stop == (image_width \div 2) - (image_width % 2)
    IN  [k \in 1..(IF stop > first THEN stop - first ELSE 0) |-> (first + k - 1) * pixel_width]

\* pixels_vector / np.sqrt(focal_length**2 + pixels_vector**2) / ruling
\*   + self._center_wavelength
\* One entry is center + sign * sqrt(num / den): the root is kept symbolic.
WavelengthOf(p, focal_length, ruling, center_wavelength) ==
    [center |-> center_wavelength,
     sign |-> IF p < 0 THEN -1 ELSE IF p > 0 THEN 1 ELSE 0,
     num |-> p * p,
     den |-> (focal_length * focal_length + p * p) * ruling * ruling]

\* the property wavelength_spectrum; camera_constraints exists once
\* on_activate has run
wavelength_spectrum ==
    /\ sl_last' =
         IF module_state = "deactivated"
         THEN [op |-> "wavelength_spectrum", arg |-> <<>>, ret |-> NoResult, log |-> "none",
               statistic |-> FALSE, raised |-> TRUE]
         ELSE LET pixels_vector == PixelsVector(optics.image_width, optics.pixel_width)
              IN  [op |-> "wavelength_spectrum", arg |-> <<>>,
                   ret |-> [kind |-> "ndarray", mask |-> <<>>,
                            axis |-> [k \in 1..Len(pixels_vector) |->
                                        WavelengthOf(pixels_vector[k], optics.focal_length,
                                                     Ruling(cache.grating_index),
                                                     cache.center_wavelength)]],
                   log |-> "none", statistic |-> FALSE, raised |-> FALSE]
    /\ UNCHANGED <<logic_vars, interfuse_vars, th_vars, sh_vars,
                   optics, stack, sv, stepper, pol, shl, npz>>

InitOptics(widths, pixel_widths, focal_lengths, stacks) ==
    /\ optics \in [image_width : widths, pixel_width : pixel_widths,
                   focal_length : focal_lengths]
    /\ stack \in {data \in stacks : ExactStack(data)}
    /\ sl_last = NoCall

\* a session restored with number_accumulated_scan = n persisted
Accumulating(n) == [Restored("ACC_SINGLE_SCAN") EXCEPT !.number_accumulated_scan = n]

NextCosmic ==
    \/ on_activate
    \/ reject_cosmic

NextWavelength ==
    \/ on_activate
    \/ \E v \in Numbers : set_grating_index(v)
    \/ \E w \in Numbers : set_center_wavelength(w)
    \/ wavelength_spectrum

\* ------------------------------------- SpectrumLogic: persisted status variables
\* The StatusVar declarations are the module's; the store and the host's
\* dump at deactivation and load at activation are the host's: each StatusVar
\* is written to and read from the store under the name it was declared with.
\* The host's order over the variables is not fixed here: any order is taken.
StatusVars == <<"_acquired_data", "_wavelength_calibration">>
\* StatusVar(name, default): the name
StatusVarName(attr) ==
    CASE attr = "_acquired_data" -> "wavelength_calibration"
      [] attr = "_wavelength_calibration" -> "wavelength_calibration"
StoreKeys == {StatusVarName(StatusVars[k]) : k \in 1..Len(StatusVars)}

\* a stored or held value with its Python type
Ndarray(frames) == [kind |-> "ndarray", val |-> frames]
Number(n) == [kind |-> "number", val |-> <<n>>]
Absent == [kind |-> "absent", val |-> <<>>]
\* StatusVar(name, default): the default
StatusVarDefault ==
    [attr \in Range(StatusVars) |->
        IF attr = "_acquired_data" THEN Ndarray(NoFrame) ELSE Number(0)]

InitStatusVars ==
    sv = [active |-> FALSE, attrs |-> StatusVarDefault,
          store |-> [key \in StoreKeys |-> Absent],
          at_deactivation |-> StatusVarDefault, dumped |-> FALSE]

\* the host writes the variables in `order`; a later write under the same
\* name replaces the earlier one
RECURSIVE Dump(_, _, _)
Dump(order, attrs, store) ==
    IF order = <<>> THEN store
    ELSE Dump(Tail(order), attrs,
              [store EXCEPT ![StatusVarName(Head(order))] = attrs[Head(order)]])
\* the host sets every variable whose name is in the store
Load(attrs, store) ==
    [attr \in DOMAIN attrs |->
        IF store[StatusVarName(attr)] = Absent THEN attrs[attr]
        ELSE store[StatusVarName(attr)]]
Orders == {order \in [1..Len(StatusVars) -> Range(StatusVars)] :
              \A a \in Range(StatusVars) : \E k \in 1..Len(StatusVars) : order[k] = a}

OnlyStatusVars ==
    UNCHANGED <<logic_vars, interfuse_vars, th_vars, sh_vars,
                optics, stack, sl_last, stepper, pol, shl, npz>>

host_activate ==
    /\ ~sv.active
    /\ sv' = [sv EXCEPT !.active = TRUE, !.attrs = Load(sv.attrs, sv.store)]
    /\ OnlyStatusVars

host_deactivate(order) ==
    /\ sv.active
    /\ sv' = [sv EXCEPT !.active = FALSE, !.store = Dump(order, sv.attrs, sv.store),
                        !.at_deactivation = sv.attrs, !.dumped = TRUE]
    /\ OnlyStatusVars

\* _check_status: self._acquired_data = self.get_acquired_data()
sv_acquired(frame) ==
    /\ sv.active
    /\ sv' = [sv EXCEPT !.attrs["_acquired_data"] = Ndarray(<<frame>>)]
    /\ OnlyStatusVars

\* the wavelength_calibration setter: self._wavelength_calibration = ...
sv_wavelength_calibration(c) ==
    /\ sv.active
    /\ sv' = [sv EXCEPT !.attrs["_wavelength_calibration"] = Number(c)]
    /\ OnlyStatusVars

NextStatusVars ==
    \/ host_activate
    \/ \E order \in Orders : host_deactivate(order)
    \/ \E frame \in Frames : sv_acquired(frame)
    \/ \E c \in Numbers : sv_wavelength_calibration(c)

\* ----------------------------------------------------- ConfocalStepperLogic
\* Nothing in the class locks the module or assigns _current_x/_y/_z before
\* move_to_position reads them: the state after construction has the module
\* idle or locked by its host and the three attributes either absent or set
\* by the caller.  NoneVal stands for an absent attribute and for an argument
\* left at None.
Axes == <<"x", "y", "z">>
MaxStepperCalls == 1    \* ConfocalStepperLogic calls explored per behaviour
Targets == Numbers \cup {NoneVal}
AxisResults == [Range(Axes) -> {0, -1}]

InitStepper(states, currents) ==
    /\ \E st \in states, cur \in currents :
          stepper = [state |-> st, clock_frequency |-> NoneVal, current |-> cur,
                     count |-> 0,
                     last |-> [op |-> "none", arg |-> <<>>, ret |-> "None", raised |-> FALSE,
                               before |-> cur, results |-> [a \in Range(Axes) |-> 0]],
                     moves |-> <<>>]

NoCurrent == [a \in Range(Axes) |-> NoneVal]
CurrentAt(p) == [a \in Range(Axes) |-> p]

StepperStep(op, arg, ret, raised, results, moves, new_stepper) ==
    /\ stepper.count < MaxStepperCalls
    /\ stepper' = [new_stepper EXCEPT
                      !.count = stepper.count + 1,
                      !.last = [op |-> op, arg |-> arg, ret |-> ret, raised |-> raised,
                                before |-> stepper.current, results |-> results],
                      !.moves = moves]
    /\ UNCHANGED <<logic_vars, interfuse_vars, th_vars, sh_vars,
                   optics, stack, sl_last, sv, pol, shl, npz>>

\* set_clock_frequency: the assignment stands before the getState() test
set_clock_frequency(clock_frequency) ==
    LET locked == stepper.state = "locked"
    IN  StepperStep("set_clock_frequency", <<clock_frequency>>,
                    IF locked THEN "-1" ELSE "0", FALSE, [a \in Range(Axes) |-> 0], <<>>,
                    [stepper EXCEPT !.clock_frequency = clock_frequency])

\* One `if <t> is not None and <t> != self._current_<axis>` block of
\* move_to_position, run on the frame f of the call: [current, moves,
\* return_value, out, raised].  return_value and out are locals: "unbound"
\* until assigned.
MoveBlock(f, axis, target, result) ==
    IF target = NoneVal THEN f
    ELSE IF f.current[axis] = NoneVal THEN [f EXCEPT !.raised = "AttributeError"]
    ELSE IF target = f.current[axis] THEN f
    ELSE LET steps == target - f.current[axis]
             \* x, y: out = True, then False for a negative delta;
             \* z: `up = True`, and out only assigned for a negative delta
             out == IF steps < 0 THEN "False"
                    ELSE IF axis = "z" THEN f.out ELSE "True"
         IN  IF out = "unbound" THEN [f EXCEPT !.raised = "UnboundLocalError"]
             ELSE [f EXCEPT !.out = out,
                            !.moves = Append(@, [axis |-> axis, out |-> out,
                                                 steps |-> Abs(steps)]),
                            !.return_value = IF result = 0 THEN "0" ELSE "-1",
                            !.current[axis] = target]

\* `if return_value == -1: return return_value`
ReturnTest(f) ==
    IF f.raised # "no" \/ f.returned THEN f
    ELSE IF f.return_value = "unbound" THEN [f EXCEPT !.raised = "UnboundLocalError"]
    ELSE IF f.return_value = "-1" THEN [f EXCEPT !.returned = TRUE]
    ELSE f

Running(f) == f.raised = "no" /\ ~f.returned

MoveFrame(x, y, z, results) ==
    LET f0 == [current |-> stepper.current, moves |-> <<>>, return_value |-> "unbound",
               out |-> "unbound", raised |-> "no", returned |-> FALSE]
        f1 == ReturnTest(MoveBlock(f0, "x", x, results["x"]))
        f2 == IF Running(f1) THEN ReturnTest(MoveBlock(f1, "y", y, results["y"])) ELSE f1
        f3 == IF Running(f2) THEN MoveBlock(f2, "z", z, results["z"]) ELSE f2
    IN  f3

move_to_position(x, y, z, results) ==
    LET f == MoveFrame(x, y, z, results)
    IN  StepperStep("move_to_position", <<x, y, z>>,
                    IF f.raised # "no" THEN f.raised ELSE f.return_value,
                    f.raised # "no", results, f.moves,
                    [stepper EXCEPT !.current = f.current])

NextStepper ==
    \/ \E f \in 1..MaxFrequency : set_clock_frequency(f)
    \/ \E x \in Targets, y \in Targets, z \in Targets, results \in AxisResults :
          move_to_position(x, y, z, results)

\* ------------------------------------- the dual-polarization scanner interfuse
\* scan_line as its statements read (the reshape of line 158 discards its
\* result), one step per acquisition; it takes no lock, and
\* get_last_spectrum may be called at any time.  A spectrum is one number, the
\* zeros of np.zeros are 0, _pointer None is NoneVal.
ZeroPair == <<0, 0>>
SpectrumOrNone == Frames \cup {NoneVal}

InitPolarimeter ==
    pol = [has_count_data |-> FALSE, count_data |-> <<>>, pointer |-> NoneVal,
           pc |-> "out", n |-> 0, i |-> 0, stored |-> 0, scans |-> 0,
           result |-> "none",
           last |-> [kind |-> "none", value |-> <<>>]]

OnlyPolarimeter ==
    UNCHANGED <<logic_vars, interfuse_vars, th_vars, sh_vars,
                optics, stack, sl_last, sv, stepper, shl, npz>>

\* on_activate: self._count_data = None
pol_on_activate ==
    /\ pol.pc = "out"
    /\ pol.has_count_data
    /\ pol' = [pol EXCEPT !.has_count_data = FALSE, !.count_data = <<>>, !.stored = 0]
    /\ OnlyPolarimeter

\* self._count_data = np.zeros((len(line_path), 2, ...))
pol_scan_line_call(n) ==
    /\ pol.pc = "out"
    /\ pol.scans < MaxScans
    /\ pol' = [pol EXCEPT !.has_count_data = TRUE,
                          !.count_data = [k \in 1..n |-> ZeroPair],
                          !.pc = "first", !.n = n, !.i = 0, !.stored = 0,
                          !.scans = @ + 1, !.result = "none"]
    /\ OnlyPolarimeter

\* scanner_set_position; self._pointer = i; data1 = take_acquisition();
\* len(data1) raises on None
pol_first_spectrum(data1) ==
    /\ pol.pc = "first"
    /\ pol.i < pol.n
    /\ pol' = IF data1 = NoneVal
              THEN [pol EXCEPT !.pointer = pol.i, !.pc = "out", !.result = "raised"]
              ELSE [pol EXCEPT !.pointer = pol.i, !.pc = "second",
                               !.count_data[pol.i + 1][1] = data1]
    /\ OnlyPolarimeter

\* data2 = take_acquisition(); self._count_data[i][1] = data2; next i
pol_second_spectrum(data2) ==
    /\ pol.pc = "second"
    /\ pol' = IF data2 = NoneVal
              THEN [pol EXCEPT !.pc = "out", !.result = "raised"]
              ELSE [pol EXCEPT !.pc = "first", !.count_data[pol.i + 1][2] = data2,
                               !.stored = pol.i + 1, !.i = pol.i + 1]
    /\ OnlyPolarimeter

\* return self._count_data
pol_scan_line_return ==
    /\ pol.pc = "first"
    /\ pol.i = pol.n
    /\ pol' = [pol EXCEPT !.pc = "out", !.result = "count_data"]
    /\ OnlyPolarimeter

\* get_last_spectrum: `self._count_data is not None and self._pointer > 0`,
\* then self._count_data[self._pointer - 1]
LastIndex(pointer) == pointer - 1
pol_get_last_spectrum ==
    /\ pol' = [pol EXCEPT !.last =
                 IF ~pol.has_count_data THEN [kind |-> "None", value |-> <<>>]
                 ELSE IF pol.pointer = NoneVal THEN [kind |-> "TypeError", value |-> <<>>]
                 ELSE IF ~(pol.pointer > 0) THEN [kind |-> "None", value |-> <<>>]
                 ELSE IF LastIndex(pol.pointer) + 1 \in 1..Len(pol.count_data)
                      THEN [kind |-> "pair",
                            value |-> pol.count_data[LastIndex(pol.pointer) + 1]]
                 ELSE [kind |-> "IndexError", value |-> <<>>]]
    /\ OnlyPolarimeter

NextPolarimeter ==
    \/ pol_on_activate
    \/ \E n \in 0..MaxLine : pol_scan_line_call(n)
    \/ \E data1 \in SpectrumOrNone : pol_first_spectrum(data1)
    \/ \E data2 \in SpectrumOrNone : pol_second_spectrum(data2)
    \/ pol_scan_line_return
    \/ pol_get_last_spectrum

\* ----------------------------- ShamrockLogic and the spectrum_shamrock logic
\* In shamrock_logic.py the name center_wavelength is bound twice in the class
\* body: by the property of lines 132-149 and then by
\* `@detector_offset.setter def center_wavelength` (lines 159-172), which
\* builds a property from detector_offset's getter and this setter and binds
\* it to the name.  The class that results has the second one.  An argument
\* is [kind, value]: its Python type and, for a number, its value.
ValueKinds == {"int", "float", "str"}
Arguments == [kind : ValueKinds, value : Numbers]

InitShamrockLogic ==
    shl = [detector_offset |-> 0,
           device |-> [central_wavelength |-> 0, detector_offset |-> 0],
           count |-> 0,
           last |-> [op |-> "none", arg |-> [kind |-> "int", value |-> 0], calls |-> <<>>,
                     before |-> 0, ret |-> NoneVal, raised |-> FALSE]]

\* one access of a property of the logic: an assignment (ShlStep) or a read
ShlAccess(op, arg, driver_calls, before, ret, raised, new_shl) ==
    /\ shl.count < MaxDriverCalls
    /\ shl' = [new_shl EXCEPT !.count = shl.count + 1,
                              !.last = [op |-> op, arg |-> arg, calls |-> driver_calls,
                                        before |-> before, ret |-> ret, raised |-> raised]]
    /\ UNCHANGED <<logic_vars, interfuse_vars, th_vars, sh_vars,
                   optics, stack, sl_last, sv, stepper, pol, npz>>
ShlStep(op, arg, driver_calls, before, new_shl) ==
    ShlAccess(op, arg, driver_calls, before, NoneVal, FALSE, new_shl)

\* `logic.center_wavelength = v` on a ShamrockLogic: the setter of lines 159-172
\*   parameter_correct = type(offset) is int
\*   if parameter_correct and offset != self._detector_offset: ...
shl_center_wavelength(arg) ==
    LET parameter_correct == arg.kind = "int"
    IN  IF parameter_correct /\ arg.value # shl.detector_offset
        THEN ShlStep("ShamrockLogic.center_wavelength", arg,
                     <<VCall("set_detector_offset", arg.value)>>,
                     shl.device.central_wavelength,
                     [shl EXCEPT !.device.detector_offset = arg.value,
                                 !.detector_offset = arg.value])
        ELSE ShlStep("ShamrockLogic.center_wavelength", arg, <<>>,
                     shl.device.central_wavelength, shl)

\* The class body binds the name center_wavelength twice: the property of
\* lines 133-150, then `@detector_offset.setter def center_wavelength`, a copy
\* of the detector_offset property (its getter) with the offset setter.  The
\* name detector_offset keeps the property with a getter and no setter.
NoArgument == [kind |-> "int", value |-> 0]

\* `logic.detector_offset = v`: the property has no setter, AttributeError
shl_detector_offset(arg) ==
    ShlAccess("ShamrockLogic.detector_offset", arg, <<>>, shl.device.detector_offset,
              NoneVal, TRUE, shl)

\* reading logic.center_wavelength: the getter of the detector_offset property
shl_read_center_wavelength ==
    ShlAccess("read ShamrockLogic.center_wavelength", NoArgument,
              <<VCall("get_detector_offset", NoneVal)>>, shl.device.central_wavelength,
              shl.device.detector_offset, FALSE, shl)

\* reading logic.detector_offset: spectrometer_device.get_detector_offset()
shl_read_detector_offset ==
    ShlAccess("read ShamrockLogic.detector_offset", NoArgument,
              <<VCall("get_detector_offset", NoneVal)>>, shl.device.detector_offset,
              shl.device.detector_offset, FALSE, shl)

\* `type(wavelength) is (float or int)`: `float or int` is float
TypeIsFloatOrInt(kind) == kind = "float"

\* `logic.central_wavelength = v` on the logic of spectrum_shamrock.py; the
\* value compared with is self.central_wavelength, read from the driver
ssl_central_wavelength(arg) ==
    LET parameter_correct == TypeIsFloatOrInt(arg.kind)
    IN  IF parameter_correct /\ arg.value # shl.device.central_wavelength
        THEN ShlStep("central_wavelength", arg,
                     <<VCall("get_central_wavelength", NoneVal),
                       VCall("set_central_wavelength", arg.value)>>,
                     shl.device.central_wavelength,
                     [shl EXCEPT !.device.central_wavelength = arg.value])
        ELSE ShlStep("central_wavelength", arg,
                     IF parameter_correct THEN <<VCall("get_central_wavelength", NoneVal)>>
                     ELSE <<>>,
                     shl.device.central_wavelength, shl)

NextShamrockLogic ==
    \/ \E arg \in Arguments : shl_center_wavelength(arg)
    \/ \E arg \in Arguments : ssl_central_wavelength(arg)
    \/ \E arg \in Arguments : shl_detector_offset(arg)
    \/ shl_read_center_wavelength
    \/ shl_read_detector_offset

\* -------------------------------------------------------------- NPZactuator
\* The configuration gives one axis label and the limits _min and _max; the
\* serial link carries what _write sends.
AxisLabels == {"x", "y"}
PassMethods == {"move_rel", "move_abs", "abort", "get_pos", "get_status", "calibrate",
                "get_velocity", "set_velocity"}

InitNPZ(labels, limits) ==
    /\ \E label \in labels, lo \in limits, hi \in limits :
          /\ lo <= hi
          /\ npz = [axis_label |-> label, min |-> lo, max |-> hi,
                    activated |-> FALSE, connection |-> "closed", sent |-> <<>>,
                    count |-> 0,
                    last |-> [op |-> "none", ret |-> "None", raised |-> FALSE]]

NpzStep(op, ret, raised, new_npz) ==
    /\ npz.count < MaxDriverCalls
    /\ npz' = [new_npz EXCEPT !.count = npz.count + 1,
                              !.last = [op |-> op, ret |-> ret, raised |-> raised]]
    /\ UNCHANGED <<logic_vars, interfuse_vars, th_vars, sh_vars,
                   optics, stack, sl_last, sv, stepper, pol, shl>>

\* get_constraints: one entry, under the configured label
Constraints == {npz.axis_label}
\* _write(axis, command): `pass`
Write(sent, axis, command) == sent

\* on_activate: open the serial resource, get_constraints(), then
\* self._write('x', '{} {} setlimit'.format(constraints['x']['pos_min'], ...))
npz_on_activate ==
    /\ ~npz.activated
    /\ IF "x" \in Constraints
       THEN NpzStep("on_activate", "0", FALSE,
                    [npz EXCEPT !.activated = TRUE, !.connection = "open",
                                !.sent = Write(@, "x", [command |-> "setlimit",
                                                         min |-> npz.min, max |-> npz.max])])
       ELSE NpzStep("on_activate", "KeyError", TRUE,
                    [npz EXCEPT !.connection = "open"])

\* on_deactivate: close the serial connection and the resource manager
npz_on_deactivate ==
    /\ npz.activated
    /\ NpzStep("on_deactivate", "0", FALSE,
               [npz EXCEPT !.activated = FALSE, !.connection = "closed"])

\* move_rel, move_abs, abort, get_pos, ...: `pass`
npz_pass(method) ==
    /\ npz.activated
    /\ NpzStep(method, "None", FALSE, npz)

NextNPZ ==
    \/ npz_on_activate
    \/ npz_on_deactivate
    \/ \E method \in PassMethods : npz_pass(method)

InitOthers ==
    /\ InitOptics({Width}, {1}, {1}, {<<>>})
    /\ InitStatusVars
    /\ InitStepper({"idle"}, {NoCurrent})
    /\ InitPolarimeter
    /\ InitShamrockLogic
    /\ InitNPZ({"x"}, {0})

InitDrivers ==
    /\ InitTimeHarp
    /\ InitShamrock({[f \in Flippers |-> TRUE]}, {[s \in SlitIndexes |-> TRUE]})
    /\ InitOthers


Init ==
    /\ InitLogic({FirstRun, Restored("MULTI_SCAN"), Restored("LIVE_SCAN")}, 1..MaxGratings)
    /\ InitInterfuse({NoneVal})
    /\ InitDrivers
InitSetters ==
    /\ InitLogic({FirstRun, Restored("MULTI_SCAN")}, 1..MaxGratings)
    /\ InitInterfuse({NoneVal})
    /\ InitDrivers
Spec == Init /\ [][Next]_vars
SpecSetters == InitSetters /\ [][NextSetters]_vars

\* SpectrumLogic restored with persisted timings that satisfy the timing
\* relations, and its four timing setters
MaxTiming == 4          \* largest persisted or assigned delay, exposure time or count
Timed(exposure_time, accumulation_delay, scan_delay, number_accumulated_scan, mode) ==
    [Restored(mode) EXCEPT !.exposure_time = exposure_time,
                           !.accumulation_delay = accumulation_delay,
                           !.scan_delay = scan_delay,
                           !.number_accumulated_scan = number_accumulated_scan]
TimedCaches ==
    {Timed(e, a, s, n, m) : e \in 1..MaxTiming, a \in 1..MaxTiming, s \in 1..MaxTiming,
                            n \in 1..2, m \in {"SINGLE_SCAN", "ACC_SINGLE_SCAN"}}
InitTiming ==
    /\ InitLogic({c \in TimedCaches : /\ c.exposure_time < c.accumulation_delay
                                       /\ c.number_accumulated_scan * c.accumulation_delay
                                            <= c.scan_delay
                                       /\ c.exposure_time < c.scan_delay}, {1})
    /\ InitInterfuse({NoneVal})
    /\ InitDrivers
NextTiming ==
    \/ on_activate
    \/ \E v \in 0..MaxTiming : set_exposure_time(v)
    \/ \E v \in 0..MaxTiming : set_accumulation_delay(v)
    \/ \E v \in 0..MaxTiming : set_scan_delay(v)
    \/ \E n \in 0..MaxTiming : set_number_accumulated_scan(n)
SpecTiming == InitTiming /\ [][NextTiming]_vars

\* ------------------------------------- SpectrometerScannerInterfuse.scan_line
\* Each spectrum is one number; the collaborators (scanner, spectrometer
\* logic) may raise at any call.  scan_line blocks its caller, so it is
\* modelled one statement at a time and another caller may call it meanwhile.
Positions == {1, 2}
LinePaths == UNION {[1..n -> Positions] : n \in 0..MaxLine}
Spectra == Frames
CallOutcomes == {"ok", "raises"}

\* the module state a refused call leaves: `return -1` comes before
\* module_state.lock() and outside the try block, so `finally` does not run
LockAfterRefusal_released(state) == "idle"
LockAfterRefusal(state) == state

\* `if self.module_state() == 'locked': ... return -1`, else module_state.lock()
scan_line_call(path) ==
    /\ IF if_state = "locked"
       THEN /\ if_result' = [kind |-> "refused", value |-> <<>>, locked |-> FALSE]
            /\ if_state' = LockAfterRefusal(if_state)
            /\ UNCHANGED <<if_pc, if_line, if_i, if_count, if_moves>>
       ELSE /\ if_pc = "out"
            /\ if_state' = "locked"
            /\ if_pc' = "zeros"
            /\ if_line' = path
            /\ if_i' = 0
            /\ if_count' = <<>>
            /\ if_moves' = 0
            /\ if_result' = [kind |-> "none", value |-> <<>>, locked |-> TRUE]
    /\ UNCHANGED <<if_line_length, logic_vars, driver_vars>>

\* count_data = np.zeros((self._line_length, len(self.get_scanner_count_channels())))
scan_line_zeros ==
    /\ if_pc = "zeros"
    /\ \E channels \in CallOutcomes :
         IF if_line_length = NoneVal \/ channels = "raises"
         THEN if_pc' = "finally_raise" /\ UNCHANGED if_count
         ELSE if_pc' = "loop" /\ if_count' = [k \in 1..if_line_length |-> 0]
    /\ UNCHANGED <<if_state, if_line, if_i, if_line_length, if_moves, if_result, logic_vars, driver_vars>>

\* self.error(...) in the else branch: the interfuse and its base class
\* define no method `error`, the call raises AttributeError before `break`
HasErrorMethod == FALSE

\* one iteration of `for i, position in enumerate(line_path)`, or its end
scan_line_point ==
    /\ if_pc = "loop"
    /\ IF if_i = Len(if_line)
       THEN if_pc' = "finally_return" /\ UNCHANGED <<if_i, if_count, if_moves>>
       ELSE \E move \in CallOutcomes, spectrum \in CallOutcomes, data \in Spectra \cup {NoneVal} :
              /\ if_moves' = if_moves + 1
              /\ IF move = "raises" \/ spectrum = "raises"
                 THEN if_pc' = "finally_raise" /\ UNCHANGED <<if_i, if_count>>
                 ELSE IF data # NoneVal
                 THEN IF if_i + 1 \in DOMAIN if_count
                      THEN /\ if_count' = [if_count EXCEPT ![if_i + 1] = data]
                           /\ if_i' = if_i + 1
                           /\ if_pc' = "loop"
                      ELSE if_pc' = "finally_raise" /\ UNCHANGED <<if_i, if_count>>
                 ELSE if_pc' = "absent" /\ UNCHANGED <<if_i, if_count>>
    /\ UNCHANGED <<if_state, if_line, if_line_length, if_result, logic_vars, driver_vars>>

\* the else branch of `if data is not None`: self.error('Error while taking
\* spectrum. Stopping line') and then `break`
scan_line_absent ==
    /\ if_pc = "absent"
    /\ if_pc' = IF HasErrorMethod THEN "finally_return" ELSE "finally_raise"
    /\ UNCHANGED <<if_state, if_line, if_i, if_count, if_line_length, if_moves, if_result,
                   logic_vars, driver_vars>>

\* the state `finally:` leaves the module in, whatever ended the try block
AfterFinally_only_on_return(how) == IF how = "finally_return" THEN "idle" ELSE "locked"
AfterFinally(how) == "idle"

\* finally: self.module_state.unlock(); then `return count_data` or the
\* exception propagates to the caller
scan_line_leave ==
    /\ if_pc \in {"finally_return", "finally_raise"}
    /\ if_state' = AfterFinally(if_pc)
    /\ if_result' = [kind |-> IF if_pc = "finally_return" THEN "returned" ELSE "raised",
                     value |-> if_count, locked |-> TRUE]
    /\ if_pc' = "out"
    /\ UNCHANGED <<if_line, if_i, if_count, if_line_length, if_moves, logic_vars, driver_vars>>

NextInterfuse ==
    \/ \E path \in LinePaths : scan_line_call(path)
    \/ scan_line_zeros
    \/ scan_line_point
    \/ scan_line_absent
    \/ scan_line_leave

InitInterfuseSpec ==
    /\ InitLogic({FirstRun}, {1})
    /\ InitInterfuse({NoneVal} \cup 1..MaxLine)
    /\ InitDrivers
SpecInterfuse == InitInterfuseSpec /\ [][NextInterfuse]_vars

InitTimeHarpSpec ==
    /\ InitLogic({FirstRun}, {1})
    /\ InitInterfuse({NoneVal})
    /\ InitDrivers
SpecTimeHarp == InitTimeHarpSpec /\ [][NextTimeHarp]_vars
SpecCounterHist == InitTimeHarpSpec /\ [][NextCounterHist]_vars
SpecSlowFast == InitTimeHarpSpec /\ [][NextSlowFast]_vars

InitShamrockSpec ==
    /\ InitLogic({FirstRun}, {1})
    /\ InitInterfuse({NoneVal})
    /\ InitTimeHarp
    /\ InitShamrock([Flippers -> BOOLEAN], [SlitIndexes -> BOOLEAN])
    /\ InitOthers
SpecShamrock == InitShamrockSpec /\ [][NextShamrock]_vars

InitCosmicSpec ==
    /\ InitLogic({Accumulating(n) : n \in 1..MaxStack}, {1})
    /\ InitInterfuse({NoneVal})
    /\ InitTimeHarp
    /\ InitShamrock({[f \in Flippers |-> TRUE]}, {[s \in SlitIndexes |-> TRUE]})
    /\ InitOptics({Width}, {1}, {1}, Stacks)
    /\ InitStatusVars
    /\ InitStepper({"idle"}, {NoCurrent})
    /\ InitPolarimeter
    /\ InitShamrockLogic
    /\ InitNPZ({"x"}, {0})
SpecCosmic == InitCosmicSpec /\ [][NextCosmic]_vars

InitWavelengthSpec ==
    /\ InitLogic({FirstRun}, 1..MaxGratings)
    /\ InitInterfuse({NoneVal})
    /\ InitTimeHarp
    /\ InitShamrock({[f \in Flippers |-> TRUE]}, {[s \in SlitIndexes |-> TRUE]})
    /\ InitOptics(2..Width, 1..MaxValue, 1..MaxValue, {<<>>})
    /\ InitStatusVars
    /\ InitStepper({"idle"}, {NoCurrent})
    /\ InitPolarimeter
    /\ InitShamrockLogic
    /\ InitNPZ({"x"}, {0})
SpecWavelength == InitWavelengthSpec /\ [][NextWavelength]_vars

InitModules(states, currents, labels, limits) ==
    /\ InitLogic({FirstRun}, {1})
    /\ InitInterfuse({NoneVal})
    /\ InitTimeHarp
    /\ InitShamrock({[f \in Flippers |-> TRUE]}, {[s \in SlitIndexes |-> TRUE]})
    /\ InitOptics({Width}, {1}, {1}, {<<>>})
    /\ InitStatusVars
    /\ InitStepper(states, currents)
    /\ InitPolarimeter
    /\ InitShamrockLogic
    /\ InitNPZ(labels, limits)

SpecStatusVars == InitModules({"idle"}, {NoCurrent}, {"x"}, {0}) /\ [][NextStatusVars]_vars
SpecStepper ==
    InitModules({"idle", "locked"}, {NoCurrent} \cup {CurrentAt(p) : p \in Numbers},
                {"x"}, {0}) /\ [][NextStepper]_vars
SpecPolarimeter == InitModules({"idle"}, {NoCurrent}, {"x"}, {0}) /\ [][NextPolarimeter]_vars
SpecShamrockLogic ==
    InitModules({"idle"}, {NoCurrent}, {"x"}, {0}) /\ [][NextShamrockLogic]_vars
SpecNPZ == InitModules({"idle"}, {NoCurrent}, AxisLabels, Numbers) /\ [][NextNPZ]_vars

\* ------------------------------------------------------------------ claims
SetterNames ==
    {"grating_index", "center_wavelength", "wavelength_calibration", "input_port",
     "output_port", "input_slit_width", "output_slit_width", "read_mode", "readout_speed",
     "active_tracks", "image_advanced_binning", "image_advanced_area", "acquisition_mode",
     "camera_gain", "exposure_time", "accumulation_delay", "scan_delay", "number_of_scan",
     "number_accumulated_scan", "trigger_mode", "shutter_state", "cooler_status",
     "camera_temperature_setpoint"}
TimerCallbacks == {"_check_status", "loop_acquisition"}

\* C1: start_acquisition() on a locked module calls nothing on the camera,
\* starts no timer and leaves the module state, acquired_data, the timers and
\* the camera as they were; and as long as only start_acquisition,
\* stop_acquisition and the timers drive the module (loop_acquisition is never
\* called directly) the camera never has more than one exposure in flight.
C1_StartRefusedWhileLocked ==
    /\ [][(last'.op = "start_acquisition" /\ module_state = "locked") =>
            /\ calls' = <<>>
            /\ UNCHANGED <<module_state, acquired_data, status_timer, loop_timer,
                           cam_ready, cam_inflight, cam_frame>>]_vars
    /\ [](~loop_called => cam_inflight <= 1)
C1_Witness ==
    /\ last.op = "start_acquisition"
    /\ last.from = "locked"
    /\ module_state = "locked"
    /\ cam_inflight = 1

\* C2: in SINGLE_SCAN mode start_acquisition() on an idle module locks it; no
\* step leaves 'locked' while the camera is not ready; the status poll that
\* finds the camera ready unlocks the module and stores the camera's frame in
\* acquired_data.
C2_SingleScan ==
    [][cache.acquisition_mode = "SINGLE_SCAN" =>
         /\ (last'.op = "start_acquisition" /\ module_state = "idle")
               => (module_state' = "locked" /\ ~cam_ready')
         /\ (module_state = "locked" /\ ~cam_ready) => module_state' = "locked"
         /\ (last'.op = "_check_status" /\ module_state = "locked" /\ cam_ready)
               => (module_state' = "idle" /\ acquired_data' = cam_frame)]_vars
C2_Witness ==
    /\ cache.acquisition_mode = "SINGLE_SCAN"
    /\ last.op = "_check_status"
    /\ last.from = "locked"
    /\ module_state = "idle"
    /\ acquired_data = cam_frame
    /\ acquired_data # NoFrame

\* C3 (as claimed): in LIVE_SCAN mode no timer callback takes the module from
\* 'locked' to 'idle'.
C3_LiveScanNeverUnlocksItself ==
    [][(cache.acquisition_mode = "LIVE_SCAN" /\ module_state = "locked"
           /\ last'.op \in TimerCallbacks) => module_state' = "locked"]_vars

\* C4 (as claimed): in MULTI_SCAN mode the module leaves 'locked' only with
\* number_of_scan frames in acquired_data.
C4_MultiScanTakesAllFrames ==
    [][(cache.acquisition_mode = "MULTI_SCAN" /\ module_state = "locked"
           /\ module_state' = "idle") => Len(acquired_data') = cache.number_of_scan]_vars

\* C5 (as claimed): stop_acquisition() on a locked module aborts the camera
\* and leaves the module idle.
C5_StopUnlocks ==
    [][(last'.op = "stop_acquisition" /\ module_state = "locked") =>
          (module_state' = "idle" /\ cam_ready' /\ ~last'.raised)]_vars

\* C6 (as claimed): on a locked module every setter leaves every cached value
\* and every hardware register unchanged and makes no hardware call.
C6_LockedSettersChangeNothing ==
    [][(last'.op \in SetterNames /\ module_state = "locked") =>
          (cache' = cache /\ hw' = hw /\ calls' = <<>>)]_vars

\* C7 (as claimed): on an activated module every hardware-backed cached value
\* equals what the hardware holds (what a read-back returns).
CacheMatchesHardware ==
    /\ cache.grating_index = hw.grating_index
    /\ cache.center_wavelength = hw.wavelength
    /\ cache.input_port = hw.input_port
    /\ cache.output_port = hw.output_port
    /\ \A k \in 1..Len(InputPorts) : cache.input_slit_width[k] = hw.slit_width[InputPorts[k]]
    /\ \A k \in 1..Len(OutputPorts) : cache.output_slit_width[k] = hw.slit_width[OutputPorts[k]]
    /\ EnumName(cache.read_mode) = EnumName(hw.read_mode)
    /\ cache.readout_speed = hw.readout_speed
    /\ cache.camera_gain = hw.gain
    /\ cache.exposure_time = hw.exposure_time
    /\ cache.trigger_mode = hw.trigger_mode
    /\ cache.temperature_setpoint = hw.temperature_setpoint
C7_CacheIsReadBack == module_state # "deactivated" => CacheMatchesHardware

\* C8: on an idle module, grating_index = v with v outside [0, G) changes
\* nothing and calls nothing; with v the cached index it calls nothing; with
\* any other v it writes v to the spectrometer, reads the index back and
\* caches what it read.
C8_GratingIndexSetter ==
    [][(last'.op = "grating_index" /\ module_state = "idle") =>
         LET v == last'.arg IN
         /\ ~(0 <= v /\ v < cons.number_of_gratings)
               => (cache' = cache /\ hw' = hw /\ calls' = <<>>)
         /\ v = cache.grating_index => (cache' = cache /\ hw' = hw /\ calls' = <<>>)
         /\ (0 <= v /\ v < cons.number_of_gratings /\ v # cache.grating_index)
               => /\ calls' = <<"spectrometer.set_grating_index",
                                "spectrometer.get_grating_index">>
                  /\ hw'.grating_index = v
                  /\ cache'.grating_index = hw'.grating_index
                  /\ \A f \in DOMAIN cache \ {"grating_index"} : cache'[f] = cache[f]]_vars
C8_Witness ==
    /\ last.op = "grating_index"
    /\ last.from = "idle"
    /\ last.arg = 1
    /\ cache.grating_index = 1
    /\ hw.grating_index = 1
    /\ Len(calls) = 2

\* the cached value a setter's argument is compared with
ComparableSetters ==
    {"grating_index", "center_wavelength", "wavelength_calibration", "input_port",
     "output_port", "read_mode", "readout_speed", "acquisition_mode", "camera_gain",
     "exposure_time", "accumulation_delay", "scan_delay", "number_of_scan",
     "number_accumulated_scan", "trigger_mode", "shutter_state",
     "camera_temperature_setpoint"}
CachedValueOf(op) ==
    CASE op = "camera_temperature_setpoint" -> cache.temperature_setpoint
      [] OTHER -> cache[op]

\* C9 (as claimed): on an idle module a setter called with the cached value
\* changes nothing and makes no hardware call.
C9_SameValueIsNoOp ==
    [][(last'.op \in ComparableSetters /\ module_state = "idle"
           /\ last'.arg = CachedValueOf(last'.op)) =>
          (cache' = cache /\ hw' = hw /\ calls' = <<>>)]_vars

\* C10: whenever scan_line() has taken the lock, the interfuse is 'idle' when
\* control leaves scan_line(), by return or by exception.
C10_ScanLineUnlocks ==
    [][(if_pc # "out" /\ if_pc' = "out") => if_state' = "idle"]_vars
C10_Witness ==
    /\ if_pc = "out"
    /\ if_result.kind = "raised"
    /\ if_result.locked
    /\ if_moves > 0
    /\ if_state = "idle"

\* C11 (as claimed): when the spectrum requested at a point comes back absent,
\* scan_line stops the line and returns the partial array to its caller:
\* control goes on to the normal return with count_data as filled so far and
\* no further scanner move.
C11_AbsentSpectrumReturnsPartial ==
    [][if_pc = "absent" =>
          (if_pc' = "finally_return" /\ UNCHANGED <<if_count, if_moves>>)]_vars

\* a step that is a call of the TimeHarp260 method op
ThCalled(op) == th_count' = th_count + 1 /\ th_last'.op = op
ThCallMade(fn, arg) == \E k \in 1..Len(th_calls') : th_calls'[k] = VCall(fn, arg)

\* C12: get_counter() while a fast measurement runs returns the array of -1,
\* makes no vendor call and changes neither meas_run, the mode flag, the
\* binning nor the histogram memory (no attribute and no device register).
C12_GetCounterDuringFastMeasurement ==
    [][(ThCalled("get_counter") /\ th.meas_run /\ th.slow_or_fast = "fast") =>
          (th_last'.ret = "array(-1)" /\ th' = th /\ th_calls' = <<>>)]_vars
C12_Witness ==
    /\ th_last.op = "get_counter"
    /\ th_last.ret = "array(-1)"
    /\ th.meas_run
    /\ th.slow_or_fast = "fast"
    /\ th.running
    /\ th.hist = "filled"

\* C13 (as claimed): start_measure() returns -1 and changes nothing when
\* meas_run is true in 'slow' mode; in every other state it returns 0 after
\* clearing the histogram memory and starting an acquisition of ACQTMAX, with
\* meas_run true and the mode 'fast'.
C13_StartMeasure ==
    [][ThCalled("start_measure") =>
          IF th.meas_run /\ th.slow_or_fast = "slow"
          THEN th_last'.ret = "-1" /\ th' = th /\ th_calls' = <<>>
          ELSE /\ th_last'.ret = "0"
               /\ ThCallMade("TH260_ClearHistMem", NoneVal)
               /\ ThCallMade("TH260_StartMeas", ACQTMAX)
               /\ th'.meas_run
               /\ th'.slow_or_fast = "fast"]_vars

\* C14: configure() called while meas_run is true leaves the mode flag and the
\* device's binning code as they were and makes no vendor call; called with a
\* bin width while no measurement runs it sets the mode flag to 'fast' and
\* writes the binning code of that width to the device.
C14_ConfigureOnlyWhenIdle ==
    [][ThCalled("configure") =>
          /\ th.meas_run => /\ th'.slow_or_fast = th.slow_or_fast
                            /\ th'.binning = th.binning
                            /\ th_calls' = <<>>
          /\ (~th.meas_run /\ th_last'.arg >= 1)
                => /\ th'.slow_or_fast = "fast"
                   /\ th_calls' = <<VCall("TH260_SetBinning", Log2Floor(th_last'.arg))>>]_vars
C14_Witness ==
    /\ th_last.op = "configure"
    /\ ~th_last.raised
    /\ th.meas_run
    /\ th.slow_or_fast = "slow"
    /\ th.binning = SlowBinning
    /\ th.fast_bin_width >= 1

C16_InitializeRejectsOtherModes ==
    [][(ThCalled("initialize") /\ th_last'.arg \notin {MODE_HIST, MODE_T2, MODE_T3}) =>
          th_calls' = <<>>]_vars

\* C17 (as claimed): set_up_clock(f) returns 0 without raising, with the
\* exposure interval 1/f for a non-zero f and 0.1 s for f zero or None.
C17_SetUpClock ==
    [][ThCalled("set_up_clock") =>
          /\ ~th_last'.raised
          /\ th_last'.ret = "0"
          /\ th'.exposure = IF th_last'.arg \in {0, NoneVal}
                            THEN DefaultExposure ELSE Seconds(1, th_last'.arg)]_vars

\* a step that is a call of the Shamrock method op
ShCalled(op) == sh_count' = sh_count + 1 /\ sh_last'.op = op

\* C18 (as claimed): check / error_message returns a falsy value for every
\* status code other than success and a truthy value for success.
C18_CheckFalsyOnFailure ==
    [][(ShCalled("check") \/ ShCalled("error_message")) /\ ~sh_last'.raised =>
          (Truthy(sh_last'.ret) <=> sh_last'.arg = SHAMROCK_SUCCESS)]_vars

\* C19 (as claimed): check / error_message returns normally for every status
\* code, also one the error-code table does not hold.
C19_CheckNeverRaises ==
    [][(ShCalled("check") \/ ShCalled("error_message")) => ~sh_last'.raised]_vars

\* C20 (as claimed): with the input (output) flipper mirror absent,
\* get_input_port() (get_output_port()) returns 0 and does not ask the
\* library for the flipper's position, whatever the other flipper.
C20_AbsentFlipperReturnsZero ==
    [][/\ (ShCalled("get_input_port") /\ sh.has_device /\ ~sh.present[InputFlipper]
             /\ ~sh_last'.raised)
            => /\ sh_last'.ret = 0
               /\ \A k \in 1..Len(sh_calls') : sh_calls'[k].fn # "ShamrockGetFlipperMirror"
       /\ (ShCalled("get_output_port") /\ sh.has_device /\ ~sh.present[OutputFlipper]
             /\ ~sh_last'.raised)
            => /\ sh_last'.ret = 0
               /\ \A k \in 1..Len(sh_calls') : sh_calls'[k].fn # "ShamrockGetFlipperMirror"]_vars

SlCalled(op) == sl_last' # sl_last /\ sl_last'.op = op

\* C22: reject_cosmic called with a stack of fewer than
\* number_accumulated_scan scans logs an error, returns no result, computes no
\* statistic and changes no state of the module.
C22_RejectCosmicRefuses ==
    [][(SlCalled("reject_cosmic") /\ Len(stack) < cache.number_accumulated_scan) =>
          /\ sl_last'.ret = NoResult
          /\ sl_last'.log = "error"
          /\ ~sl_last'.statistic
          /\ ~sl_last'.raised
          /\ UNCHANGED <<logic_vars, optics, stack>>]_vars
C22_Witness ==
    /\ sl_last.op = "reject_cosmic"
    /\ Len(stack) > 0
    /\ Len(stack) < cache.number_accumulated_scan
    /\ sl_last.log = "error"
    /\ sl_last.ret = NoResult

\* the band of the claim: |x - mean| <= k * sigma with mean = Sum / n and
\* sigma = StdTimes / n of the pixel column, scaled by coeff_rej_cosmic_den * n
InBand(col, x) ==
    coeff_rej_cosmic_den * Abs(Len(col) * x - Sum(col)) <= coeff_rej_cosmic_num * StdTimes(col)

\* C23: for a stack of at least number_accumulated_scan scans reject_cosmic
\* masks exactly the samples outside [mean - k*sigma, mean + k*sigma] of their
\* pixel column, k = 2.2: every in-band sample stays unmasked, every other
\* sample is masked.
C23_RejectCosmicBand ==
    [][(SlCalled("reject_cosmic") /\ Len(stack) >= cache.number_accumulated_scan) =>
          /\ sl_last'.ret.kind = "masked_array"
          /\ \A k \in 1..Len(stack) : \A p \in Columns :
                sl_last'.ret.mask[k][p] <=> ~InBand(PixelColumn(stack, p), stack[k][p])]_vars

\* the axis entry center + sign * sqrt(num / den) is the number w
IsExactly(entry, w) == entry.den # 0 /\ entry.num = 0 /\ entry.center = w

\* C24: the wavelength axis has an entry that is exactly the cached centre
\* wavelength (the entry of pixel offset 0), whatever the ruling, the focal
\* length, the pixel width and the sensor width.
C24_CentrePixelIsCentreWavelength ==
    [][(SlCalled("wavelength_spectrum") /\ ~sl_last'.raised) =>
          \E k \in 1..Len(sl_last'.ret.axis) :
              IsExactly(sl_last'.ret.axis[k], cache.center_wavelength)]_vars

\* C25: after a deactivate/activate cycle every status variable holds the
\* value it held at deactivation.
C25_StatusVarsRoundTrip ==
    [][(~sv.active /\ sv'.active /\ sv.dumped) => sv'.attrs = sv.at_deactivation]_vars

StepperCalled(op) == stepper'.count = stepper.count + 1 /\ stepper'.last.op = op

\* C26: set_clock_frequency(f) on a locked module returns -1 and leaves the
\* stored clock frequency unchanged; on an idle module it stores f and
\* returns 0.
C26_SetClockFrequency ==
    [][StepperCalled("set_clock_frequency") =>
          IF stepper.state = "locked"
          THEN /\ stepper'.last.ret = "-1"
               /\ stepper'.clock_frequency = stepper.clock_frequency
          ELSE /\ stepper'.last.ret = "0"
               /\ stepper'.clock_frequency = stepper'.last.arg[1]]_vars

\* the moves C27 asks for: one per requested axis whose target differs from
\* the cached position, in the order x, y, z, up to and including the first
\* one the driver fails
WantedAxes(before, arg) ==
    SelectSeq(<<1, 2, 3>>, LAMBDA k : arg[k] # NoneVal /\ arg[k] # before[Axes[k]])
FirstFailure(wanted, results) ==
    IF \E j \in 1..Len(wanted) : results[Axes[wanted[j]]] = -1
    THEN CHOOSE j \in 1..Len(wanted) :
            /\ results[Axes[wanted[j]]] = -1
            /\ \A i \in 1..(j - 1) : results[Axes[wanted[i]]] = 0
    ELSE 0
ExpectedMoves(before, arg, results) ==
    LET wanted == WantedAxes(before, arg)
        issued == IF FirstFailure(wanted, results) = 0 THEN wanted
                  ELSE SubSeq(wanted, 1, FirstFailure(wanted, results))
    IN  [j \in 1..Len(issued) |->
            [axis |-> Axes[issued[j]],
             out |-> IF arg[issued[j]] > before[Axes[issued[j]]] THEN "True" ELSE "False",
             steps |-> Abs(arg[issued[j]] - before[Axes[issued[j]]])]]

\* C27: with the three positions cached, move_to_position(x, y, z) issues
\* exactly the moves of ExpectedMoves - |target - current| steps in the
\* direction of the delta, in the order x, y, z, none after a failed one -
\* and returns -1 when one of them failed, for every subset of axes given.
C27_MoveToPosition ==
    [][(StepperCalled("move_to_position") /\ stepper.current # NoCurrent) =>
          LET result == stepper'.last
          IN  /\ ~result.raised
              /\ stepper'.moves = ExpectedMoves(result.before, result.arg, result.results)
              /\ FirstFailure(WantedAxes(result.before, result.arg), result.results) # 0
                    => result.ret = "-1"]_vars

\* C28: get_last_spectrum() returns the pair of the last point of the line
\* for which scan_line stored both spectra, during the line and after it.
C28_LastSpectrum ==
    [][(pol'.last # pol.last /\ pol.stored > 0) =>
          pol'.last = [kind |-> "pair", value |-> pol.count_data[pol.stored]]]_vars

ShlSet(op) == shl'.count = shl.count + 1 /\ shl'.last.op = op
Pushes(setter_calls_made, fn, value) ==
    \E k \in 1..Len(setter_calls_made) : setter_calls_made[k] = VCall(fn, value)

\* C29: the center-wavelength setter of ShamrockLogic pushes an int or a
\* float value that differs from the current one to the driver's centre
\* wavelength, which then holds it; a value of another type makes no driver
\* call.
C29_CenterWavelengthAcceptsIntAndFloat ==
    [][ShlSet("ShamrockLogic.center_wavelength") =>
          LET arg == shl'.last.arg
          IN  /\ (arg.kind \in {"int", "float"} /\ arg.value # shl'.last.before)
                    => /\ Pushes(shl'.last.calls, "set_central_wavelength", arg.value)
                       /\ shl'.device.central_wavelength = arg.value
              /\ arg.kind \notin {"int", "float"} => shl'.last.calls = <<>>]_vars

\* C30: on_activate of the NPZ driver sends '{min} {max} setlimit' with the
\* configured limits over the serial link, whatever the configured axis
\* label.
C30_SetLimitOnActivation ==
    [][(npz'.count = npz.count + 1 /\ npz'.last.op = "on_activate") =>
          /\ ~npz'.last.raised
          /\ \E k \in 1..Len(npz'.sent) :
                npz'.sent[k] = [command |-> "setlimit", min |-> npz.min, max |-> npz.max]]_vars

\* C31: a get_counter() call that runs a histogram acquisition starts the
\* acquisition (TH260_StartMeas) whatever exposure set_up_clock recorded, and
\* its wait ends with the first non-zero status CTCStatus reports.
C31_CounterHistTerminates ==
    [][/\ (th.pc = "out" /\ th'.pc = "poll")
            => /\ th_calls' # <<>>
               /\ th_calls'[Len(th_calls')].fn = "TH260_StartMeas"
       /\ (th.pc = "poll" /\ th_count' = th_count + 1 /\ th'.ctc_status # 0)
            => th'.pc # "poll"]_vars

\* C32: on an activated driver, after any sequence of set_up_counter,
\* get_counter, configure, start_measure, stop_measure, pause_measure and
\* continue_measure calls, the binning code programmed in the device is 21
\* whenever the mode flag is 'slow'.
C32_SlowMeansBinning21 ==
    (th.activated /\ th.slow_or_fast = "slow") => th.binning = SlowBinning

\* C35: between driver calls meas_run is never true while the mode flag is
\* 'slow', and so start_measure() never returns -1.
C35_NeverRunningWhileSlow ==
    [][/\ ~StartMeasureRefused'
       /\ ~(ThCalled("start_measure") /\ th_last'.ret = "-1")]_vars

\* C33: number_of_loop is 1 in SINGLE_SCAN and LIVE_SCAN mode, number_of_scan
\* in MULTI_SCAN mode, and number_accumulated_scan in the accumulate modes
\* ACC_SINGLE_SCAN and ACC_MULTI_SCAN.
C33_NumberOfLoopByMode ==
    /\ cache.acquisition_mode \in {"SINGLE_SCAN", "LIVE_SCAN"} => number_of_loop = 1
    /\ cache.acquisition_mode = "MULTI_SCAN" => number_of_loop = cache.number_of_scan
    /\ cache.acquisition_mode \in {"ACC_SINGLE_SCAN", "ACC_MULTI_SCAN"}
          => number_of_loop = cache.number_accumulated_scan

\* C34: scan_line() called while the interfuse is locked returns -1 and
\* leaves the scan in progress alone: no new scan is entered, no scanner move
\* and no spectrum request is made for it, and the module stays locked.
C34_RefusedScanLineKeepsLock ==
    [][if_state = "locked" =>
          /\ ~(if_pc # "zeros" /\ if_pc' = "zeros")
          /\ (if_result' # if_result /\ if_result'.kind = "refused") =>
                /\ if_state' = "locked"
                /\ if_moves' = if_moves
                /\ <<if_pc, if_line, if_i, if_count>>' = <<if_pc, if_line, if_i, if_count>>]_vars
C34_Witness ==
    /\ if_result.kind = "refused"
    /\ if_state = "locked"
    /\ if_pc = "loop"
    /\ if_moves > 0

\* C36: a callback (_check_status or loop_acquisition) that finds the camera
\* still acquiring neither reads a frame into acquired_data nor starts the
\* next exposure.
C36_FrameReadOnlyWhenReady ==
    [][(~cam_ready /\ last'.op \in {"_check_status", "loop_acquisition"}) =>
          /\ acquired_data' = acquired_data
          /\ \A k \in DOMAIN calls' :
                calls'[k] \notin {"camera.get_acquired_data", "camera.start_acquisition"}]_vars

\* the step is a handler reaching its module_state.unlock() statement
UnlockCalled ==
    \/ last'.op = "_check_status" /\ StatusUnlocks
    \/ last'.op = "stop_acquisition" /\ TimerAttributeExists

\* C37: module_state.unlock() is called only while the module is locked; once
\* an acquisition has finished and the module is idle, no later status-poll
\* callback and no stop_acquisition() attempts a second unlock.
C37_UnlockOnlyWhileLocked ==
    [][UnlockCalled => module_state = "locked"]_vars

\* the timing relations between the cached exposure time, accumulation delay,
\* scan delay and number of accumulated scans
TimingRelations(c) ==
    /\ c.exposure_time > 0
    /\ c.exposure_time < c.accumulation_delay
    /\ c.number_accumulated_scan * c.accumulation_delay <= c.scan_delay
    /\ c.exposure_time < c.scan_delay

\* C38: on an idle module whose cached timings satisfy the timing relations,
\* a call of the exposure_time, accumulation_delay, scan_delay or
\* number_accumulated_scan setter leaves them satisfied.
C38_SettersKeepTimingRelations ==
    [][(/\ module_state = "idle"
        /\ TimingRelations(cache)
        /\ last'.op \in {"exposure_time", "accumulation_delay", "scan_delay",
                         "number_accumulated_scan"})
          => TimingRelations(cache')]_vars

\* C39: wavelength_spectrum has one entry per sensor pixel: its length is the
\* camera constraint width, odd widths included.
C39_OneWavelengthPerPixel ==
    [][(SlCalled("wavelength_spectrum") /\ ~sl_last'.raised) =>
          Len(sl_last'.ret.axis) = optics.image_width]_vars

\* C40: in ShamrockLogic center_wavelength and detector_offset are independent
\* properties: assigning center_wavelength calls only set_central_wavelength
\* and leaves the offset alone, assigning detector_offset is accepted, calls
\* only set_detector_offset and leaves the centre wavelength alone, and
\* reading each returns the driver's value of that same quantity.
C40_IndependentProperties ==
    [][/\ ShlSet("ShamrockLogic.center_wavelength") =>
             /\ \A k \in DOMAIN shl'.last.calls :
                   shl'.last.calls[k].fn = "set_central_wavelength"
             /\ shl'.detector_offset = shl.detector_offset
             /\ shl'.device.detector_offset = shl.device.detector_offset
       /\ ShlSet("ShamrockLogic.detector_offset") =>
             /\ ~shl'.last.raised
             /\ \A k \in DOMAIN shl'.last.calls :
                   shl'.last.calls[k].fn = "set_detector_offset"
             /\ shl'.device.central_wavelength = shl.device.central_wavelength
       /\ ShlSet("read ShamrockLogic.center_wavelength") =>
             shl'.last.ret = shl.device.central_wavelength
       /\ ShlSet("read ShamrockLogic.detector_offset") =>
             shl'.last.ret = shl.device.detector_offset]_vars
====
